---- MODULE Spec2Model ----
(***************************************************************************)
(* Simposter poster rendering pipeline (backend/templates/universal.py and *)
(* backend/templates/uniformlogo.py) as a state machine.                    *)
(*                                                                         *)
(* Numbers that the code keeps as Python floats are kept here as exact     *)
(* integers in thousandths (0.3 is 300); int() is truncation toward zero   *)
(* and // is floor division.  An image is the record of its size, its mode *)
(* and the geometry that tells where each of its pixels comes from.        *)
(***************************************************************************)
EXTENDS Integers, Sequences, FiniteSets, TLC

\* ------------------------------------------------------------------
\* Bounds of the model
\* ------------------------------------------------------------------
MaxSrc == 3
MaxTarget == 3
MaxRenders == 2
NoiseFields == 2

\* The fixed 2:3 canvas of build_base_poster
canvas_w == 2000
canvas_h == 3000

\* ------------------------------------------------------------------
\* Python arithmetic
\* ------------------------------------------------------------------
Max(a, b) == IF a >= b THEN a ELSE b

Min(a, b) == IF a <= b THEN a ELSE b

\* int(n/d) for d > 0: truncation toward zero
IntTrunc(n, d) == IF n >= 0 THEN n \div d ELSE -((-n) \div d)

\* n // d for d > 0: floor division
FloorDiv(n, d) == IF n >= 0 THEN n \div d ELSE -(((-n) + d - 1) \div d)

RECURSIVE Gcd(_, _)
Gcd(a, b) == IF b = 0 THEN a ELSE Gcd(b, a % b)

\* int(a * b / c) for a, b >= 0 and c > 0, with b/c reduced first so that
\* the product stays within the integers TLC computes with
MulDiv(a, b, c) ==
  LET g == Gcd(b, c)
  IN (a * (b \div g)) \div (c \div g)

\* ------------------------------------------------------------------
\* Pillow operations used by the templates
\* ------------------------------------------------------------------
\* A decoded or freshly created image: every pixel is its own.
Image(w, h, mode) ==
  [exc |-> "none", w |-> w, h |-> h, mode |-> mode,
   rw |-> w, rh |-> h, cx |-> 0, cy |-> 0]

Raised(e) ==
  [exc |-> e, w |-> 0, h |-> 0, mode |-> "none",
   rw |-> 0, rh |-> 0, cx |-> 0, cy |-> 0]

\* Image.resize((w, h), LANCZOS): Pillow rejects a size below 1x1 with
\* ValueError("height and width must be > 0").
PilResize(img, w, h) ==
  IF w < 1 \/ h < 1
    THEN Raised("ValueError")
    ELSE [img EXCEPT !.w = w, !.h = h, !.rw = w, !.rh = h, !.cx = 0, !.cy = 0]

\* Image.crop((left, upper, right, lower)): the result has the size of the
\* box; the part of the box outside the image is filled with zeros.
PilCrop(img, left, upper, right, lower) ==
  [img EXCEPT !.w = right - left, !.h = lower - upper,
              !.cx = left, !.cy = upper]

\* ------------------------------------------------------------------
\* _resize_cover
\* ------------------------------------------------------------------
resize_cover(img, target_w, target_h, zoom) ==
  LET w == img.w
      h == img.h
  IN IF w = 0 \/ h = 0
       THEN PilResize(img, target_w, target_h)
       ELSE
         LET z == Max(zoom, 10)
             \* base_scale = max(target_w / w, target_h / h)
             byWidth == target_w * h >= target_h * w
             \* new_w = int(w * scale), new_h = int(h * scale)
             new_w == IF byWidth THEN MulDiv(target_w, z, 1000)
                                 ELSE MulDiv(w * target_h, z, h * 1000)
             new_h == IF byWidth THEN MulDiv(h * target_w, z, w * 1000)
                                 ELSE MulDiv(target_h, z, 1000)
             resized == PilResize(img, new_w, new_h)
             x == Max(0, FloorDiv(new_w - target_w, 2))
             y == Max(0, FloorDiv(new_h - target_h, 2))
         IN IF resized.exc # "none"
              THEN resized
              ELSE PilCrop(resized, x, y, x + target_w, y + target_h)

\* ------------------------------------------------------------------
\* Option values (what a JSON options mapping can hold)
\* ------------------------------------------------------------------
\* t is the Python type of the value; a number is held in thousandths in
\* n, a string as the sequence of its characters in s.
Absent == [t |-> "absent", n |-> 0, s |-> <<>>]

PyNone == [t |-> "none", n |-> 0, s |-> <<>>]

Num(n) == [t |-> "num", n |-> n, s |-> <<>>]

Str(s) == [t |-> "str", n |-> 0, s |-> s]

PyTrue == [t |-> "bool", n |-> 1000, s |-> <<>>]

PyFalse == [t |-> "bool", n |-> 0, s |-> <<>>]

\* options.get(key, default)
Get(options, key, default) ==
  IF options[key].t = "absent" THEN default ELSE options[key]

Digits == <<"0", "1", "2", "3", "4", "5", "6", "7", "8", "9">>

HexDigits ==
  <<"0", "1", "2", "3", "4", "5", "6", "7", "8", "9",
    "A", "B", "C", "D", "E", "F">>

IndexOf(c, seq) ==
  IF \E i \in 1..Len(seq) : seq[i] = c
    THEN CHOOSE i \in 1..Len(seq) : seq[i] = c
    ELSE 0

\* Characters that str.upper() changes, and what it changes them to.
Lower == <<"a", "b", "c", "d", "e", "f">>

ToUpper(c) == IF IndexOf(c, Lower) > 0 THEN HexDigits[10 + IndexOf(c, Lower)] ELSE c

IsDecimal(s) == Len(s) > 0 /\ \A i \in 1..Len(s) : IndexOf(s[i], Digits) > 0

RECURSIVE DecimalValue(_)
DecimalValue(s) ==
  IF Len(s) = 0 THEN 0
  ELSE 10 * DecimalValue(SubSeq(s, 1, Len(s) - 1)) + (IndexOf(s[Len(s)], Digits) - 1)

\* float(v): a number converts, a string converts when it is a decimal
\* literal and raises ValueError otherwise, None raises TypeError.
PyFloat(v) ==
  CASE v.t = "num" -> [exc |-> "none", n |-> v.n]
    [] v.t = "bool" -> [exc |-> "none", n |-> v.n]
    [] v.t = "str" -> IF IsDecimal(v.s)
                        THEN [exc |-> "none", n |-> 1000 * DecimalValue(v.s)]
                        ELSE [exc |-> "ValueError", n |-> 0]
    [] OTHER -> [exc |-> "TypeError", n |-> 0]

\* int(v): as float(v), truncated toward zero.
PyInt(v) ==
  LET f == PyFloat(v)
  IN [exc |-> f.exc, n |-> IntTrunc(f.n, 1000)]

\* bool(v): Python truthiness.
PyBool(v) ==
  CASE v.t = "num" -> v.n # 0
    [] v.t = "bool" -> v.n # 0
    [] v.t = "str" -> Len(v.s) > 0
    [] OTHER -> FALSE

\* ------------------------------------------------------------------
\* _hex_to_rgb
\* ------------------------------------------------------------------
RECURSIVE LStrip(_, _)
LStrip(s, c) == IF Len(s) > 0 /\ s[1] = c THEN LStrip(Tail(s), c) ELSE s

\* int(two characters, 16)
HexByte(a, b) ==
  LET ha == IndexOf(ToUpper(a), HexDigits)
      hb == IndexOf(ToUpper(b), HexDigits)
  IN IF ha = 0 \/ hb = 0
       THEN [exc |-> "ValueError", n |-> 0]
       ELSE [exc |-> "none", n |-> 16 * (ha - 1) + (hb - 1)]

hex_to_rgb(v) ==
  IF v.t # "str"
    THEN [exc |-> "AttributeError", rgb |-> <<0, 0, 0>>]
    ELSE
      LET h == LStrip(v.s, "#")
      IN IF Len(h) # 6
           THEN [exc |-> "none", rgb |-> <<255, 255, 255>>]
           ELSE
             LET r == HexByte(h[1], h[2])
                 g == HexByte(h[3], h[4])
                 b == HexByte(h[5], h[6])
             IN IF r.exc # "none" \/ g.exc # "none" \/ b.exc # "none"
                  THEN [exc |-> "ValueError", rgb |-> <<0, 0, 0>>]
                  ELSE [exc |-> "none", rgb |-> <<r.n, g.n, b.n>>]

\* ------------------------------------------------------------------
\* Effect layers
\* ------------------------------------------------------------------
\* An effect that was composited on the canvas: its name and its two
\* parameters (matte: matte_h, fade_h; grain: amount, noise field).
Effect(name, a, b) == [name |-> name, a |-> a, b |-> b]

Applied(img, name) == \E i \in 1..Len(img.fx) : img.fx[i].name = name

add_vignette(img, strength) ==
  IF strength <= 0
    THEN img
    ELSE [img EXCEPT !.mode = "RGB",
                     !.fx = Append(@, Effect("vignette", strength, 0))]

\* add_grain that draws and blends the noise whatever the amount
add_grain_unguarded(img, amount, noise) ==
  [img EXCEPT !.mode = "RGB",
              !.fx = Append(@, Effect("grain", amount, noise))]

\* noise is the field np.random.uniform draws for this call
add_grain(img, amount, noise) ==
  IF amount <= 0
    THEN img
    ELSE [img EXCEPT !.mode = "RGB",
                     !.fx = Append(@, Effect("grain", amount, noise))]

\* add_wash that blends the grey layer also at strength 0 (>= for >)
add_wash_at_zero(img, strength) ==
  IF strength >= 0
    THEN [img EXCEPT !.fx = Append(@, Effect("wash", strength, 0))]
    ELSE img

\* The wash of lines 510-513: a grey layer blended at v12_wash
add_wash(img, strength) ==
  IF strength > 0
    THEN [img EXCEPT !.fx = Append(@, Effect("wash", strength, 0))]
    ELSE img

\* matte_alpha with the matte band starting one row late (y > matte_start)
matte_alpha_late(y, height, matte_h, fade_h) ==
  LET matte_start == height - matte_h
      fade_start == Max(0, matte_start - fade_h)
  IN IF y > matte_start
       THEN 255
       ELSE IF y >= fade_start
              THEN IntTrunc(255 * (y - fade_start), Max(fade_h, 1))
              ELSE 0

\* Alpha of row y of matte_mask (the body of the loop over the rows)
matte_alpha(y, height, matte_h, fade_h) ==
  LET matte_start == height - matte_h
      fade_start == Max(0, matte_start - fade_h)
  IN IF y >= matte_start
       THEN 255
       ELSE IF y >= fade_start
              THEN IntTrunc(255 * (y - fade_start), Max(fade_h, 1))
              ELSE 0

\* clamp without its lower bound
clamp_no_floor(v, lo, hi) == Min(hi, v)

\* clamp(v, lo, hi) of build_base_poster and render_universal
clamp(v, lo, hi) == Max(lo, Min(hi, v))

\* ------------------------------------------------------------------
\* State
\* ------------------------------------------------------------------
VARIABLES
  cv_pc, cv_img, cv_tw, cv_th, cv_zoom, cv_ret,   \* a call of _resize_cover
  mm_pc, mm_matte, mm_fade, matte_mask,           \* the matte/fade mask alone
  pc,            \* where the render is
  renderer,      \* "universal" or "uniformlogo"
  background,    \* the decoded background, or NoImage
  logo,          \* the decoded logo, or NoImage
  options,       \* the options mapping
  text_height,   \* height the font measures for the wrapped text block
  loc,           \* the option values the render uses, after coercion
  canvas,        \* the working canvas
  exc,           \* the exception that left the render, if any
  rendered       \* the images earlier renders of these inputs returned

VARIABLES
  rc_pc, rc_logo, rc_mode, rc_color, rc_out,              \* a recolouring of a logo
  wl_pc, wl_line, wl_max, wl_spacing, wl_out,             \* a call of wrap_line
  tx_pc, tx_text, tx_title, tx_year, tx_transform, tx_out, \* the text that is drawn
  th_pc, th_amount, th_noise, th_touched, np_random,      \* renders on threads
  ow_pc, ow_in, ow_heap, ow_refs                          \* the objects of a render

VARIABLES
  vg_pc, vg_strength, vg_i, vg_mask,                      \* a call of _add_vignette
  tl_pc, tl_opts, tl_padding, tl_i, tl_heap,              \* the text layer of
  tl_text_layer, tl_draw, tl_canvas,                      \*   _render_text_overlay
  us_pc, us_file, us_before, us_payload, us_calls,        \* the stored UI settings
  bt_pc, bt_keys, bt_send, bt_i, bt_results, bt_exc       \* a call of api_batch

coverVars == <<cv_pc, cv_img, cv_tw, cv_th, cv_zoom, cv_ret>>

recolorVars == <<rc_pc, rc_logo, rc_mode, rc_color, rc_out>>

wrapVars == <<wl_pc, wl_line, wl_max, wl_spacing, wl_out>>

textVars == <<tx_pc, tx_text, tx_title, tx_year, tx_transform, tx_out>>

threadVars == <<th_pc, th_amount, th_noise, th_touched, np_random>>

ownVars == <<ow_pc, ow_in, ow_heap, ow_refs>>

vignetteVars == <<vg_pc, vg_strength, vg_i, vg_mask>>

layerVars == <<tl_pc, tl_opts, tl_padding, tl_i, tl_heap,
               tl_text_layer, tl_draw, tl_canvas>>

settingsVars == <<us_pc, us_file, us_before, us_payload, us_calls>>

batchVars == <<bt_pc, bt_keys, bt_send, bt_i, bt_results, bt_exc>>

lateVars == <<vignetteVars, layerVars, settingsVars, batchVars>>

\* Everything outside _resize_cover, the matte mask and the render
auxVars == <<recolorVars, wrapVars, textVars, threadVars, ownVars, lateVars>>

matteVars == <<mm_pc, mm_matte, mm_fade, matte_mask>>

inputVars == <<renderer, background, logo, options, text_height>>

renderVars == <<pc, renderer, background, logo, options, text_height,
                loc, canvas, exc, rendered>>

vars == <<cv_pc, cv_img, cv_tw, cv_th, cv_zoom, cv_ret,
          mm_pc, mm_matte, mm_fade, matte_mask,
          pc, renderer, background, logo, options, text_height,
          loc, canvas, exc, rendered, auxVars>>

\* None where an image is expected
NoImage ==
  [exc |-> "none", w |-> 0, h |-> 0, mode |-> "None",
   rw |-> 0, rh |-> 0, cx |-> 0, cy |-> 0]

NoLogo == [on |-> FALSE, x |-> 0, y |-> 0, w |-> 0, h |-> 0,
           tint |-> "stock", rgb |-> <<0, 0, 0>>]

NoText == [on |-> FALSE, y |-> 0, h |-> 0, rgb |-> <<0, 0, 0>>]

\* Image.new("RGBA", (w, h), (0, 0, 0, 255)) with nothing on it yet
NewCanvas(w, h, mode) ==
  [w |-> w, h |-> h, mode |-> mode,
   poster |-> NoImage, shift_px |-> 0, fx |-> <<>>,
   logo |-> NoLogo, text |-> NoText,
   rounded |-> FALSE, border_px |-> 0, border_rgb |-> <<0, 0, 0>>]

NoCanvas == NewCanvas(0, 0, "None")

NoExc == [type |-> "none", by |-> "none"]

LocInit ==
  [poster_zoom |-> 1000, poster_shift_y |-> 0,
   matte_height_ratio |-> 0, fade_height_ratio |-> 0,
   vignette_strength |-> 0, grain_amount |-> 0, v12_wash |-> 0,
   logo_scale |-> 500, logo_offset |-> 750, position_y |-> 750]

CoverIdle ==
  /\ cv_pc = "idle"
  /\ cv_img = Image(0, 0, "RGB")
  /\ cv_tw = 0
  /\ cv_th = 0
  /\ cv_zoom = 1000
  /\ cv_ret = Raised("none")

MatteIdle ==
  /\ mm_pc = "idle"
  /\ mm_matte = 0
  /\ mm_fade = 0
  /\ matte_mask = <<>>

OptionKeys ==
  {"poster_zoom", "poster_shift_y", "matte_height_ratio", "fade_height_ratio",
   "vignette_strength", "grain_amount", "v12_wash_strength", "wash_strength",
   "logo_scale", "logo_offset", "logo_mode", "logo_hex",
   "text_overlay_enabled", "custom_text", "position_y", "text_color",
   "border_enabled", "border_px", "border_color",
   "uniform_logo_max_w", "uniform_logo_max_h",
   "uniform_logo_offset_x", "uniform_logo_offset_y",
   "uniform_logo_override_enabled", "uniform_logo_override_scale",
   "uniform_logo_override_offset_y"}

\* The options mapping that holds exactly the keys of part
Opts(part) == [k \in OptionKeys |-> IF k \in DOMAIN part THEN part[k] ELSE Absent]

RenderIdle ==
  /\ pc = "idle"
  /\ renderer = "universal"
  /\ background = NoImage
  /\ logo = NoImage
  /\ options = Opts(<<>>)
  /\ text_height = 0
  /\ loc = LocInit
  /\ canvas = NoCanvas
  /\ exc = NoExc
  /\ rendered = <<>>

RecolorIdle ==
  /\ rc_pc = "idle"
  /\ rc_logo = <<>>
  /\ rc_mode = "stock"
  /\ rc_color = <<0, 0, 0>>
  /\ rc_out = <<>>

WrapIdle ==
  /\ wl_pc = "idle"
  /\ wl_line = <<>>
  /\ wl_max = 0
  /\ wl_spacing = 0
  /\ wl_out = <<>>

TextIdle ==
  /\ tx_pc = "idle"
  /\ tx_text = <<>>
  /\ tx_title = <<>>
  /\ tx_year = <<>>
  /\ tx_transform = <<>>
  /\ tx_out = <<>>

ThreadsIdle ==
  /\ th_pc = <<>>
  /\ th_amount = <<>>
  /\ th_noise = <<>>
  /\ th_touched = <<>>
  /\ np_random = 0

OwnIdle ==
  /\ ow_pc = "idle"
  /\ ow_in = <<>>
  /\ ow_heap = <<>>
  /\ ow_refs = <<>>

VignetteIdle ==
  /\ vg_pc = "idle"
  /\ vg_strength = 0
  /\ vg_i = 0
  /\ vg_mask = <<>>

LayerIdle ==
  /\ tl_pc = "idle"
  /\ tl_opts = <<>>
  /\ tl_padding = 0
  /\ tl_i = 0
  /\ tl_heap = <<>>
  /\ tl_text_layer = 0
  /\ tl_draw = 0
  /\ tl_canvas = {}

SettingsIdle ==
  /\ us_pc = "idle"
  /\ us_file = <<>>
  /\ us_before = <<>>
  /\ us_payload = <<>>
  /\ us_calls = 0

BatchIdle ==
  /\ bt_pc = "idle"
  /\ bt_keys = <<>>
  /\ bt_send = FALSE
  /\ bt_i = 0
  /\ bt_results = <<>>
  /\ bt_exc = "none"

LateIdle ==
  /\ VignetteIdle
  /\ LayerIdle
  /\ SettingsIdle
  /\ BatchIdle

\* ------------------------------------------------------------------
\* Specification of _resize_cover as a pure function
\* ------------------------------------------------------------------
CoverZooms == {10, 500, 1000, 1500, 2000}

InitCover ==
  /\ cv_pc = "call"
  /\ cv_img \in {Image(w, h, "RGB") : w \in 0..MaxSrc, h \in 0..MaxSrc}
  /\ cv_tw \in 1..MaxTarget
  /\ cv_th \in 1..MaxTarget
  /\ cv_zoom \in CoverZooms
  /\ cv_ret = Raised("none")
  /\ MatteIdle
  /\ RenderIdle
  /\ RecolorIdle
  /\ WrapIdle
  /\ TextIdle
  /\ ThreadsIdle
  /\ OwnIdle
  /\ LateIdle

ResizeCoverCall ==
  /\ cv_pc = "call"
  /\ cv_ret' = resize_cover(cv_img, cv_tw, cv_th, cv_zoom)
  /\ cv_pc' = IF cv_ret'.exc = "none" THEN "returned" ELSE "raised"
  /\ UNCHANGED <<cv_img, cv_tw, cv_th, cv_zoom>>
  /\ UNCHANGED matteVars
  /\ UNCHANGED renderVars
  /\ UNCHANGED auxVars

NextCover == ResizeCoverCall

SpecCover == InitCover /\ [][NextCover]_vars

\* ------------------------------------------------------------------
\* Specification of the matte/fade mask of build_base_poster
\* ------------------------------------------------------------------
MatteRatios == {-100, 0, 50, 200, 250, 300, 333, 500, 700}

\* int(canvas_h * ratio) for matte_h and fade_h
band_height(ratio) == IntTrunc(canvas_h * ratio, 1000)

InitMatte ==
  /\ mm_pc = "call"
  /\ mm_matte \in MatteRatios
  /\ mm_fade \in MatteRatios
  /\ matte_mask = <<>>
  /\ CoverIdle
  /\ RenderIdle
  /\ RecolorIdle
  /\ WrapIdle
  /\ TextIdle
  /\ ThreadsIdle
  /\ OwnIdle
  /\ LateIdle

\* Lines 464-465 and 477-497: clamp the two ratios and fill the mask row
\* by row; without a band no mask is built and no row is composited.
MatteMaskBuild ==
  /\ mm_pc = "call"
  /\ LET matte_h == band_height(clamp(mm_matte, 0, 500))
         fade_h == band_height(clamp(mm_fade, 0, 500))
     IN IF matte_h > 0 \/ fade_h > 0
          THEN /\ matte_mask' = [y \in 0..(canvas_h - 1) |->
                                   matte_alpha(y, canvas_h, matte_h, fade_h)]
               /\ mm_pc' = "masked"
          ELSE /\ matte_mask' = [y \in 0..(canvas_h - 1) |-> 0]
               /\ mm_pc' = "skipped"
  /\ UNCHANGED <<mm_matte, mm_fade>>
  /\ UNCHANGED coverVars
  /\ UNCHANGED renderVars
  /\ UNCHANGED auxVars

NextMatte == MatteMaskBuild

SpecMatte == InitMatte /\ [][NextMatte]_vars

\* ------------------------------------------------------------------
\* build_base_poster, one action per stage
\* ------------------------------------------------------------------
\* float(options.get(key, default))
FloatOpt(opts, key, default) == PyFloat(Get(opts, key, Num(default)))

\* The float() coercions of lines 448-455, in the order they run
BaseKeys ==
  <<"poster_zoom", "poster_shift_y", "matte_height_ratio",
    "fade_height_ratio", "vignette_strength", "grain_amount">>

BaseDefault(key) == IF key = "poster_zoom" THEN 1000 ELSE 0

BaseCoerce(opts, key) == FloatOpt(opts, key, BaseDefault(key))

\* Index of the first of keys whose coercion raises, 0 when none does
FirstRaising(opts, keys) ==
  LET bad(i) == BaseCoerce(opts, keys[i]).exc # "none"
  IN IF \E i \in 1..Len(keys) : bad(i)
       THEN CHOOSE i \in 1..Len(keys) : bad(i) /\ \A j \in 1..(i - 1) : ~bad(j)
       ELSE 0

\* An exception leaves the render: the frame and its canvas are gone.
Raise(type, by) ==
  /\ pc' = "raised"
  /\ exc' = [type |-> type, by |-> by]
  /\ canvas' = NoCanvas
  /\ UNCHANGED loc

\* Lines 437-468: the background check, the coercions and the clamps
ReadBaseOptions ==
  /\ pc = "call"
  /\ IF background = NoImage
       THEN Raise("ValueError", "background")
       ELSE
         LET bad == FirstRaising(options, BaseKeys)
             val(key) == BaseCoerce(options, key).n
         IN IF bad > 0
              THEN Raise(BaseCoerce(options, BaseKeys[bad]).exc, BaseKeys[bad])
              ELSE
                /\ loc' = [loc EXCEPT
                     !.poster_zoom = Max(val("poster_zoom"), 100),
                     !.poster_shift_y = clamp(val("poster_shift_y"), -500, 500),
                     !.matte_height_ratio = clamp(val("matte_height_ratio"), 0, 500),
                     !.fade_height_ratio = clamp(val("fade_height_ratio"), 0, 500),
                     !.vignette_strength = clamp(val("vignette_strength"), 0, 1000),
                     !.grain_amount = clamp(val("grain_amount"), 0, 600)]
                /\ pc' = "base"
                /\ UNCHANGED <<canvas, exc>>
  /\ UNCHANGED <<inputVars, rendered>>
  /\ UNCHANGED coverVars
  /\ UNCHANGED matteVars
  /\ UNCHANGED auxVars

\* Lines 470-475: the black canvas, the cover-fit poster and its paste
PastePoster ==
  /\ pc = "base"
  /\ LET poster == resize_cover(background, canvas_w, canvas_h, loc.poster_zoom)
     IN IF poster.exc # "none"
          THEN Raise(poster.exc, "resize")
          ELSE
            /\ canvas' = [NewCanvas(canvas_w, canvas_h, "RGBA") EXCEPT
                 !.poster = poster,
                 !.shift_px = IntTrunc(loc.poster_shift_y * canvas_h, 1000)]
            /\ pc' = "matte"
            /\ UNCHANGED <<loc, exc>>
  /\ UNCHANGED <<inputVars, rendered>>
  /\ UNCHANGED coverVars
  /\ UNCHANGED matteVars
  /\ UNCHANGED auxVars

\* Lines 477-500: the matte and fade bands
MatteFade ==
  /\ pc = "matte"
  /\ LET matte_h == band_height(loc.matte_height_ratio)
         fade_h == band_height(loc.fade_height_ratio)
     IN canvas' = IF matte_h > 0 \/ fade_h > 0
                    THEN [canvas EXCEPT !.fx = Append(@, Effect("matte", matte_h, fade_h))]
                    ELSE canvas
  /\ pc' = "vignette"
  /\ UNCHANGED <<loc, exc, inputVars, rendered>>
  /\ UNCHANGED coverVars
  /\ UNCHANGED matteVars
  /\ UNCHANGED auxVars

\* Lines 502-506: vignette and grain on the RGB copy
VignetteGrain ==
  /\ pc = "vignette"
  /\ \E noise \in 1..NoiseFields :
       LET base_rgb == [canvas EXCEPT !.mode = "RGB"]
           vig == IF loc.vignette_strength > 0
                    THEN add_vignette(base_rgb, loc.vignette_strength)
                    ELSE base_rgb
       IN canvas' = add_grain(vig, loc.grain_amount, noise)
  /\ pc' = "wash"
  /\ UNCHANGED <<loc, exc, inputVars, rendered>>
  /\ UNCHANGED coverVars
  /\ UNCHANGED matteVars
  /\ UNCHANGED auxVars

\* Lines 508-515: the grey wash and the return of the RGBA base
Wash ==
  /\ pc = "wash"
  /\ LET v12_wash == FloatOpt(options, "v12_wash_strength", 0)
     IN IF v12_wash.exc # "none"
          THEN Raise(v12_wash.exc, "v12_wash_strength")
          ELSE
            /\ loc' = [loc EXCEPT !.v12_wash = v12_wash.n]
            /\ canvas' = [add_wash(canvas, v12_wash.n) EXCEPT !.mode = "RGBA"]
            /\ pc' = "logo"
            /\ UNCHANGED exc
  /\ UNCHANGED <<inputVars, rendered>>
  /\ UNCHANGED coverVars
  /\ UNCHANGED matteVars
  /\ UNCHANGED auxVars

\* ------------------------------------------------------------------
\* Logo placement
\* ------------------------------------------------------------------
S_stock == <<"s", "t", "o", "c", "k">>

S_match == <<"m", "a", "t", "c", "h">>

S_hex == <<"h", "e", "x">>

S_white == <<"#", "F", "F", "F", "F", "F", "F">>

\* str(v) of a value that is not a string is no string the code tests for
PyStr(v) == IF v.t = "str" THEN v.s ELSE <<"?">>

\* str(options.get(key, default) or default)
StrOr(opts, key, default) ==
  LET v == Get(opts, key, Str(default))
  IN IF PyBool(v) THEN PyStr(v) ELSE default

\* The recolouring of lines 556-564 (and uniformlogo.py 26-32): the tint
\* the logo carries afterwards, or the exception of _hex_to_rgb
logo_tint(opts) ==
  LET logo_mode == StrOr(opts, "logo_mode", S_stock)
      logo_hex == StrOr(opts, "logo_hex", S_white)
      color == hex_to_rgb(Str(logo_hex))
  IN IF logo_mode = S_match
       THEN [exc |-> "none", tint |-> "match", rgb |-> <<0, 0, 0>>]
       ELSE IF logo_mode = S_hex
              THEN [exc |-> color.exc, tint |-> "hex", rgb |-> color.rgb]
              ELSE [exc |-> "none", tint |-> "stock", rgb |-> <<0, 0, 0>>]

\* render_universal, lines 540-579.  Image.alpha_composite(im, dest) with a
\* negative coordinate in dest raises ValueError("Destination must be
\* non-negative") in the Pillow releases that check it and composites the
\* visible part in those that do not: negative_dest_ok is which one runs.
UniversalLogo ==
  /\ pc = "logo"
  /\ renderer = "universal"
  /\ \E negative_dest_ok \in BOOLEAN :
     LET s == FloatOpt(options, "logo_scale", 500)
         o == FloatOpt(options, "logo_offset", 750)
         logo_scale == clamp(s.n, 100, 1000)
         logo_offset == clamp(o.n, 0, 1000)
         tint == logo_tint(options)
         max_w == IntTrunc(canvas.w * logo_scale, 1000)
         resized == IF max_w > 0 /\ logo.w > 0
                      THEN PilResize(logo, IntTrunc(logo.w * max_w, logo.w),
                                           IntTrunc(logo.h * max_w, logo.w))
                      ELSE logo
         y_logo == IntTrunc((canvas.h - resized.h) * logo_offset, 1000)
         x_logo == FloorDiv(canvas.w - resized.w, 2)
     IN IF s.exc # "none" THEN Raise(s.exc, "logo_scale")
        ELSE IF o.exc # "none" THEN Raise(o.exc, "logo_offset")
        ELSE IF logo # NoImage /\ tint.exc # "none" THEN Raise(tint.exc, "logo_hex")
        ELSE IF logo # NoImage /\ resized.exc # "none" THEN Raise(resized.exc, "logo_resize")
        ELSE IF logo # NoImage /\ (x_logo < 0 \/ y_logo < 0) /\ ~negative_dest_ok
          THEN Raise("ValueError", "alpha_composite")
        ELSE
          /\ loc' = [loc EXCEPT !.logo_scale = logo_scale, !.logo_offset = logo_offset]
          /\ canvas' = IF logo = NoImage
                         THEN canvas
                         ELSE [canvas EXCEPT !.logo =
                                 [on |-> TRUE, x |-> x_logo, y |-> y_logo,
                                  w |-> resized.w, h |-> resized.h,
                                  tint |-> tint.tint, rgb |-> tint.rgb]]
          /\ pc' = "text"
          /\ UNCHANGED exc
  /\ UNCHANGED <<inputVars, rendered>>
  /\ UNCHANGED coverVars
  /\ UNCHANGED matteVars
  /\ UNCHANGED auxVars

\* A raw option used in arithmetic: a number, or TypeError
RawNum(opts, key, default) ==
  LET v == Get(opts, key, Num(default))
  IN IF v.t \in {"num", "bool"}
       THEN [exc |-> "none", n |-> v.n]
       ELSE [exc |-> "TypeError", n |-> 0]

\* fit_scale without scale = min(scale, 1.0)
fit_scale_uncapped(lw, lh, max_w, max_h) ==
  LET byWidth == lh * max_w <= max_h * lw
      num == IF byWidth THEN max_w ELSE max_h
      den == IF byWidth THEN lw * 1000 ELSE lh * 1000
  IN [num |-> num, den |-> den]

\* The auto-scaling of uniformlogo.py 50-56 as the fraction num/den:
\* fit the box max_w x max_h (thousandths of a pixel), never upscale
fit_scale(lw, lh, max_w, max_h) ==
  LET byWidth == lh * max_w <= max_h * lw
      num == IF byWidth THEN max_w ELSE max_h
      den == IF byWidth THEN lw * 1000 ELSE lh * 1000
  IN IF num > den THEN [num |-> 1, den |-> 1] ELSE [num |-> num, den |-> den]

\* render_uniform_logo without the early return of lines 18-19: None has
\* no convert()
UniformLogo_unguarded ==
  /\ pc = "logo"
  /\ renderer = "uniformlogo"
  /\ logo = NoImage
  /\ Raise("AttributeError", "logo")
  /\ UNCHANGED <<inputVars, rendered>>
  /\ UNCHANGED coverVars
  /\ UNCHANGED matteVars
  /\ UNCHANGED auxVars

\* render_uniform_logo, lines 15-75
UniformLogo ==
  /\ pc = "logo"
  /\ renderer = "uniformlogo"
  /\ IF logo = NoImage
       THEN \* line 18-19: the base poster is returned as it is
            /\ pc' = "returned"
            /\ rendered' = Append(rendered, canvas)
            /\ UNCHANGED <<loc, canvas, exc>>
       ELSE
         LET tint == logo_tint(options)
             max_w == RawNum(options, "uniform_logo_max_w", 600000)
             max_h == RawNum(options, "uniform_logo_max_h", 240000)
             offx == RawNum(options, "uniform_logo_offset_x", 500)
             offy == RawNum(options, "uniform_logo_offset_y", 780)
             override == PyBool(Get(options, "uniform_logo_override_enabled", PyFalse))
             auto == fit_scale(logo.w, logo.h, max_w.n, max_h.n)
             oscale == RawNum(options, "uniform_logo_override_scale", 0)
             ooffy == RawNum(options, "uniform_logo_override_offset_y", offy.n)
             scale == IF override /\ options["uniform_logo_override_scale"].t # "absent"
                        THEN [num |-> oscale.n, den |-> 1000]
                        ELSE auto
             offset_y_pct == IF override THEN ooffy.n ELSE offy.n
             cx == IntTrunc(canvas.w * offx.n, 1000)
             cy == IntTrunc(canvas.h * offset_y_pct, 1000)
             new_w == IntTrunc(logo.w * scale.num, scale.den)
             new_h == IntTrunc(logo.h * scale.num, scale.den)
             logo_res == PilResize(logo, new_w, new_h)
         IN IF tint.exc # "none" THEN Raise(tint.exc, "logo_hex") /\ UNCHANGED rendered
            ELSE IF offx.exc # "none" THEN Raise(offx.exc, "uniform_logo_offset_x") /\ UNCHANGED rendered
            ELSE IF offy.exc # "none" THEN Raise(offy.exc, "uniform_logo_offset_y") /\ UNCHANGED rendered
            ELSE IF max_w.exc # "none" THEN Raise(max_w.exc, "uniform_logo_max_w") /\ UNCHANGED rendered
            ELSE IF logo.w = 0 THEN Raise("ZeroDivisionError", "logo") /\ UNCHANGED rendered
            ELSE IF max_h.exc # "none" THEN Raise(max_h.exc, "uniform_logo_max_h") /\ UNCHANGED rendered
            ELSE IF override /\ (oscale.exc # "none" \/ ooffy.exc # "none")
                   THEN Raise("TypeError", "uniform_logo_override") /\ UNCHANGED rendered
            ELSE IF logo_res.exc # "none" THEN Raise(logo_res.exc, "logo_resize") /\ UNCHANGED rendered
            ELSE
              /\ canvas' = [canvas EXCEPT !.logo =
                              [on |-> TRUE, x |-> cx - FloorDiv(new_w, 2),
                               y |-> cy - FloorDiv(new_h, 2),
                               w |-> new_w, h |-> new_h,
                               tint |-> tint.tint, rgb |-> tint.rgb]]
              /\ pc' = "text"
              /\ UNCHANGED <<loc, exc, rendered>>
  /\ UNCHANGED inputVars
  /\ UNCHANGED coverVars
  /\ UNCHANGED matteVars
  /\ UNCHANGED auxVars

\* ------------------------------------------------------------------
\* Text overlay
\* ------------------------------------------------------------------
\* not text.strip()
IsBlank(text) == \A i \in 1..Len(text) : text[i] = " "

\* y_pos = int(H * position_y - total_height / 2)
text_y_pos(height, position_y, total_height) ==
  IntTrunc(2 * height * position_y - 1000 * total_height, 2000)

\* Lines 581-588 of render_universal (77-84 of render_uniform_logo) with
\* _render_text_overlay: the block of measured height text_height is
\* drawn with its top at y_pos and the canvas comes back as RGBA.
TextOverlay ==
  /\ pc = "text"
  /\ LET text_overlay_enabled == PyBool(Get(options, "text_overlay_enabled", PyFalse))
         custom_text == PyStr(Get(options, "custom_text", Str(<<>>)))
         text_color == hex_to_rgb(Get(options, "text_color", Str(S_white)))
         position_y == FloatOpt(options, "position_y", 750)
     IN IF ~text_overlay_enabled \/ custom_text = <<>> \/ IsBlank(custom_text)
          THEN /\ pc' = "finish"
               /\ UNCHANGED <<loc, canvas, exc>>
          ELSE IF text_color.exc # "none" THEN Raise(text_color.exc, "text_color")
          ELSE IF position_y.exc # "none" THEN Raise(position_y.exc, "position_y")
          ELSE
            /\ loc' = [loc EXCEPT !.position_y = position_y.n]
            /\ canvas' = [canvas EXCEPT
                 !.mode = "RGBA",
                 !.text = [on |-> TRUE,
                           y |-> text_y_pos(canvas.h, position_y.n, text_height),
                           h |-> text_height,
                           rgb |-> text_color.rgb]]
            /\ pc' = "finish"
            /\ UNCHANGED exc
  /\ UNCHANGED <<inputVars, rendered>>
  /\ UNCHANGED coverVars
  /\ UNCHANGED matteVars
  /\ UNCHANGED auxVars

\* ------------------------------------------------------------------
\* Finishing
\* ------------------------------------------------------------------
\* render_universal, lines 590-626: rounded corners, border, RGB result
UniversalFinish ==
  /\ pc = "finish"
  /\ renderer = "universal"
  /\ LET border_enabled == PyBool(Get(options, "border_enabled", PyFalse))
         border_px == PyInt(Get(options, "border_px", Num(0)))
         border_color == hex_to_rgb(Get(options, "border_color", Str(S_white)))
     IN IF border_enabled /\ border_px.exc # "none"
          THEN Raise(border_px.exc, "border_px") /\ UNCHANGED rendered
        ELSE IF border_enabled /\ border_color.exc # "none"
          THEN Raise(border_color.exc, "border_color") /\ UNCHANGED rendered
        ELSE
          /\ canvas' = [canvas EXCEPT
               !.mode = "RGB",
               !.rounded = TRUE,
               !.border_px = IF border_enabled /\ border_px.n > 0 THEN border_px.n ELSE 0,
               !.border_rgb = IF border_enabled THEN border_color.rgb ELSE @]
          /\ rendered' = Append(rendered, canvas')
          /\ pc' = "returned"
          /\ UNCHANGED <<loc, exc>>
  /\ UNCHANGED inputVars
  /\ UNCHANGED coverVars
  /\ UNCHANGED matteVars
  /\ UNCHANGED auxVars

\* ImageColor.getrgb of a "#..." string: 3, 4, 6 or 8 hex digits
PilColorOk(v) ==
  v.t = "str" =>
    /\ Len(v.s) \in {4, 5, 7, 9}
    /\ v.s[1] = "#"
    /\ \A i \in 2..Len(v.s) : IndexOf(ToUpper(v.s[i]), HexDigits) > 0

\* render_uniform_logo, lines 86-94: ImageOps.expand adds border_px on
\* every side and the canvas is returned in the mode it has
UniformBorder ==
  /\ pc = "finish"
  /\ renderer = "uniformlogo"
  /\ LET border_enabled == PyBool(Get(options, "border_enabled", PyFalse))
         px == RawNum(options, "border_px", 0)
         border_color == Get(options, "border_color", Str(S_white))
         border == IntTrunc(px.n, 1000)
     IN IF border_enabled /\ px.exc # "none"
          THEN Raise(px.exc, "border_px") /\ UNCHANGED rendered
        ELSE IF border_enabled /\ px.n > 0 /\ ~PilColorOk(border_color)
          THEN Raise("ValueError", "border_color") /\ UNCHANGED rendered
        ELSE
          /\ canvas' = IF border_enabled /\ px.n > 0
                         THEN [canvas EXCEPT !.w = @ + 2 * border,
                                             !.h = @ + 2 * border,
                                             !.border_px = border]
                         ELSE canvas
          /\ rendered' = Append(rendered, canvas')
          /\ pc' = "returned"
          /\ UNCHANGED <<loc, exc>>
  /\ UNCHANGED inputVars
  /\ UNCHANGED coverVars
  /\ UNCHANGED matteVars
  /\ UNCHANGED auxVars

\* The caller renders the same background, logo and options once more.
RenderAgain ==
  /\ pc = "returned"
  /\ Len(rendered) < MaxRenders
  /\ pc' = "call"
  /\ canvas' = NoCanvas
  /\ loc' = LocInit
  /\ UNCHANGED <<exc, inputVars, rendered>>
  /\ UNCHANGED coverVars
  /\ UNCHANGED matteVars
  /\ UNCHANGED auxVars

\* ------------------------------------------------------------------
\* The renders the model runs: inputs of render_universal and
\* render_uniform_logo as the API callers hand them over
\* ------------------------------------------------------------------
S_title == <<"{", "t", "i", "t", "l", "e", "}">>

S_abc == <<"a", "b", "c">>

S_pink == <<"#", "F", "F", "0", "0", "8", "0">>

S_nothex == <<"#", "G", "G", "0", "0", "0", "0">>

S_short == <<"#", "F", "F", "F">>

Backgrounds == {Image(1000, 1500, "RGB"), Image(1920, 1080, "RGB")}

Logos == {NoImage, Image(800, 400, "RGBA")}

Renderers == {"universal", "uniformlogo"}

\* Options of the base poster
BaseOptions ==
  {Opts([poster_zoom |-> z, poster_shift_y |-> sh,
         matte_height_ratio |-> m, fade_height_ratio |-> f]) :
     z \in {Absent, Num(50), Num(2000)},
     sh \in {Absent, Num(-700), Num(250)},
     m \in {Absent, Num(300), Num(700), Num(-100)},
     f \in {Absent, Num(200), Num(600)}}

\* Options of the effect layers
EffectOptions ==
  {Opts([vignette_strength |-> v, grain_amount |-> g, v12_wash_strength |-> w]) :
     v \in {Absent, Num(500), Num(1500), Num(-200)},
     g \in {Absent, Num(300), Num(900), Num(-50)},
     w \in {Absent, Num(100)}}

\* Options of the logo
LogoOptions ==
  {Opts([logo_scale |-> sc, logo_offset |-> of, logo_mode |-> lm, logo_hex |-> S_pinkOrAbsent]) :
     sc \in {Absent, Num(50), Num(300), Num(2000)},
     of \in {Absent, Num(-500), Num(250), Num(1500)},
     lm \in {Absent, Str(S_match), Str(S_hex)},
     S_pinkOrAbsent \in {Absent, Str(S_pink)}}

\* Options of the text overlay and of the border
TextOptions ==
  {Opts([text_overlay_enabled |-> en, custom_text |-> tx, position_y |-> py,
         border_enabled |-> be, border_px |-> bp]) :
     en \in {Absent, PyTrue},
     tx \in {Absent, Str(S_title), Str(<<" ">>)},
     py \in {Absent, Num(0), Num(1000), Num(1500), Num(-250)},
     be \in {Absent, PyTrue},
     bp \in {Absent, Num(20000)}}

\* A logo that fits the default 600x240 box of render_uniform_logo
SmallLogos == {Image(300, 100, "RGBA")}

\* Options of the bounding box and of its override
UniformOptions ==
  {Opts([uniform_logo_max_w |-> mw, uniform_logo_max_h |-> mh,
         uniform_logo_offset_y |-> oy,
         uniform_logo_override_enabled |-> ov,
         uniform_logo_override_scale |-> os]) :
     mw \in {Absent, Num(1000000), Num(200000)},
     mh \in {Absent, Num(500000), Num(100000)},
     oy \in {Absent, Num(500)},
     ov \in {Absent, PyTrue},
     os \in {Absent, Num(1500)}}

\* The wash under the two names an options mapping may give it
WashOptions ==
  {Opts([wash_strength |-> w, v12_wash_strength |-> v]) :
     w \in {Absent, Num(0), Num(100)}, v \in {Absent, Num(100)}}

S_none == <<"n", "o", "n", "e">>

\* A logo far higher than it is wide
TallLogos == {Image(200, 1000, "RGBA")}

\* Options of the placement of a logo of any shape
PlacementOptions ==
  {Opts([logo_mode |-> lm, logo_scale |-> sc, logo_offset |-> of]) :
     lm \in {Absent, Str(S_none)},
     sc \in {Absent, Num(100), Num(1000)},
     of \in {Absent, Num(0), Num(1000)}}

\* Every stage switched on, so that every option is read
AllOn ==
  [text_overlay_enabled |-> PyTrue, custom_text |-> Str(S_title),
   border_enabled |-> PyTrue, border_px |-> Num(20000),
   logo_mode |-> Str(S_hex)]

NumericKeys ==
  {"poster_zoom", "poster_shift_y", "matte_height_ratio", "fade_height_ratio",
   "vignette_strength", "grain_amount", "v12_wash_strength",
   "logo_scale", "logo_offset", "position_y", "border_px"}

ColorKeys == {"logo_hex", "text_color", "border_color"}

\* One option holds a malformed value: a string that is no number, None,
\* or a colour that is no #RRGGBB
MalformedOptions ==
  {[Opts(AllOn) EXCEPT ![k] = v] : k \in NumericKeys, v \in {Str(S_abc), PyNone}}
  \cup
  {[Opts(AllOn) EXCEPT ![k] = v] : k \in ColorKeys,
                                   v \in {Str(S_nothex), Str(S_short), PyNone}}

Input(r, bg, lg, o, th) ==
  [renderer |-> r, background |-> bg, logo |-> lg, options |-> o, text_height |-> th]

Inputs ==
  {Input(r, bg, lg, o, 96) :
     r \in Renderers, bg \in Backgrounds, lg \in Logos,
     o \in BaseOptions \cup EffectOptions \cup LogoOptions \cup MalformedOptions}
  \cup
  {Input(r, bg, lg, o, th) :
     r \in Renderers, bg \in Backgrounds, lg \in Logos,
     o \in TextOptions, th \in {96, 410}}
  \cup
  {Input(r, bg, lg, o, 96) :
     r \in Renderers, bg \in Backgrounds, lg \in Logos \cup SmallLogos,
     o \in UniformOptions}
  \cup
  {Input(r, bg, lg, o, 96) :
     r \in Renderers, bg \in Backgrounds, lg \in SmallLogos, o \in LogoOptions}
  \cup
  {Input(r, bg, lg, o, 96) :
     r \in Renderers, bg \in Backgrounds, lg \in Logos, o \in WashOptions}
  \cup
  {Input(r, bg, lg, o, 96) :
     r \in Renderers, bg \in Backgrounds, lg \in Logos \cup TallLogos,
     o \in PlacementOptions}
  \cup
  {Input(r, NoImage, lg, o, 96) :
     r \in Renderers, lg \in Logos, o \in {Opts(<<>>), Opts(AllOn)}}

Init ==
  /\ \E in \in Inputs :
       /\ renderer = in.renderer
       /\ background = in.background
       /\ logo = in.logo
       /\ options = in.options
       /\ text_height = in.text_height
  /\ pc = "call"
  /\ loc = LocInit
  /\ canvas = NoCanvas
  /\ exc = NoExc
  /\ rendered = <<>>
  /\ CoverIdle
  /\ MatteIdle
  /\ RecolorIdle
  /\ WrapIdle
  /\ TextIdle
  /\ ThreadsIdle
  /\ OwnIdle
  /\ LateIdle

Next ==
  \/ ReadBaseOptions
  \/ PastePoster
  \/ MatteFade
  \/ VignetteGrain
  \/ Wash
  \/ UniversalLogo
  \/ UniformLogo
  \/ TextOverlay
  \/ UniversalFinish
  \/ UniformBorder
  \/ RenderAgain

Spec == Init /\ [][Next]_vars

\* ------------------------------------------------------------------
\* Claims about _resize_cover (checked under SpecCover)
\* ------------------------------------------------------------------
CoverSourceNonZero == cv_img.w > 0 /\ cv_img.h > 0

\* C2: for any source, any target size and any zoom >= 0.01, _resize_cover
\* returns an image, and its size is exactly (target_w, target_h).
C2_CoverExactSize ==
  cv_pc # "call" =>
    /\ cv_pc = "returned"
    /\ cv_ret.w = cv_tw
    /\ cv_ret.h = cv_th

\* C3: for a source with non-zero dimensions and any accepted zoom, the
\* resized image is at least target_w x target_h and the crop window is
\* centred in it and lies inside it (no letterboxing).
C3_CoverNoLetterbox ==
  (cv_pc = "returned" /\ CoverSourceNonZero) =>
    /\ cv_ret.rw >= cv_tw
    /\ cv_ret.rh >= cv_th
    /\ cv_ret.cx = FloorDiv(cv_ret.rw - cv_tw, 2)
    /\ cv_ret.cy = FloorDiv(cv_ret.rh - cv_th, 2)
    /\ cv_ret.cx >= 0 /\ cv_ret.cx + cv_tw <= cv_ret.rw
    /\ cv_ret.cy >= 0 /\ cv_ret.cy + cv_th <= cv_ret.rh

\* ------------------------------------------------------------------
\* Claims about the matte/fade mask (checked under SpecMatte)
\* ------------------------------------------------------------------
\* C4: with matte_h and fade_h taken from the clamped ratios, every row at
\* or below canvas_h - matte_h has alpha 255, every row of the fade band
\* has alpha int(255 * (y - fade_start) / fade_h), below 255 and
\* non-decreasing downward, and every row above the fade band has alpha 0;
\* with matte 0.2 or 0.3 and no fade the bottom 20% (rows 2400..2999) or
\* the rows 2100..2999 are black and every row above is untouched.
C4_MatteFadeRows ==
  mm_pc # "call" =>
    LET matte_h == (canvas_h * Max(0, Min(500, mm_matte))) \div 1000
        fade_h == (canvas_h * Max(0, Min(500, mm_fade))) \div 1000
        matte_start == canvas_h - matte_h
        fade_start == matte_start - fade_h
    IN /\ DOMAIN matte_mask = 0..(canvas_h - 1)
       /\ \A y \in 0..(canvas_h - 1) :
            /\ y >= matte_start => matte_mask[y] = 255
            /\ (y >= fade_start /\ y < matte_start) =>
                 /\ matte_mask[y] = (255 * (y - fade_start)) \div fade_h
                 /\ matte_mask[y] < 255
                 /\ y > 0 => matte_mask[y - 1] <= matte_mask[y]
            /\ y < fade_start => matte_mask[y] = 0
       /\ (mm_matte = 300 /\ mm_fade <= 0) =>
            \A y \in 0..(canvas_h - 1) :
              matte_mask[y] = IF y >= 2100 THEN 255 ELSE 0
       /\ (mm_matte = 200 /\ mm_fade <= 0) =>
            \A y \in 0..(canvas_h - 1) :
              matte_mask[y] = IF 5 * y >= 4 * canvas_h THEN 255 ELSE 0

\* A matte of 0.3 under a fade of 0.2: the ramp runs over rows 1500..2099.
C4_Witness ==
  /\ mm_pc = "masked"
  /\ mm_matte = 300
  /\ mm_fade = 200
  /\ matte_mask[1499] = 0
  /\ matte_mask[1800] = 127
  /\ matte_mask[2099] = 254
  /\ matte_mask[2100] = 255

\* ------------------------------------------------------------------
\* Claims about the renders (checked under Spec)
\* ------------------------------------------------------------------
\* C1: every render returns an RGB image of exactly 2000x3000, for both
\* renderers and every options mapping, with or without border and logo.
C1_RgbFixedSize ==
  \A i \in 1..Len(rendered) :
    /\ rendered[i].mode = "RGB"
    /\ rendered[i].w = canvas_w
    /\ rendered[i].h = canvas_h

BaseReturned == pc \in {"logo", "text", "finish", "returned"}

AllStrengthsZero ==
  /\ loc.matte_height_ratio = 0
  /\ loc.fade_height_ratio = 0
  /\ loc.vignette_strength = 0
  /\ loc.grain_amount = 0
  /\ loc.v12_wash = 0

\* C5: with both ratios 0 the matte/fade stage changes nothing, and with
\* vignette_strength, grain_amount or the wash strength 0 that stage
\* changes nothing; with all of them 0 the base poster is the cover-fit
\* background pasted on the black canvas.
C5_ZeroStrengthNoOps ==
  /\ BaseReturned =>
       /\ (loc.matte_height_ratio = 0 /\ loc.fade_height_ratio = 0)
            => ~Applied(canvas, "matte")
       /\ loc.vignette_strength = 0 => ~Applied(canvas, "vignette")
       /\ loc.grain_amount = 0 => ~Applied(canvas, "grain")
       /\ loc.v12_wash = 0 => ~Applied(canvas, "wash")
  /\ (pc = "logo" /\ AllStrengthsZero) =>
       canvas = [NewCanvas(canvas_w, canvas_h, "RGBA") EXCEPT
                   !.poster = resize_cover(background, canvas_w, canvas_h,
                                           loc.poster_zoom),
                   !.shift_px = IntTrunc(loc.poster_shift_y * canvas_h, 1000)]

\* build_base_poster has returned with every strength 0, some of them
\* given out of range, and the canvas holds the shifted poster alone.
C5_Witness ==
  /\ pc = "logo"
  /\ AllStrengthsZero
  /\ options["matte_height_ratio"] = Num(-100)
  /\ options["poster_shift_y"] = Num(250)
  /\ canvas.fx = <<>>
  /\ canvas.shift_px = 750
  /\ canvas.poster.w = canvas_w

GrainOff ==
  \/ options["grain_amount"].t = "absent"
  \/ options["grain_amount"].t = "num" /\ options["grain_amount"].n <= 0

\* C6: with grain_amount = 0, two renders of the same background, logo
\* and options return identical images.
C6_Deterministic ==
  GrainOff => \A i, j \in 1..Len(rendered) : rendered[i] = rendered[j]

\* Two renders with grain off and a vignette on returned the same image.
C6_Witness ==
  /\ Len(rendered) >= 2
  /\ GrainOff
  /\ Applied(rendered[2], "vignette")
  /\ rendered[1] = rendered[2]

\* C7: with the background missing the render raises before any canvas
\* is built and returns no image, and a missing background is the only
\* condition under which a render raises.
C7_OnlyInvalidInput ==
  /\ (background = NoImage /\ pc # "call") =>
       /\ pc = "raised"
       /\ exc.by = "background"
       /\ canvas = NoCanvas
       /\ rendered = <<>>
  /\ pc = "raised" => background = NoImage

\* C8: a malformed option value (a non-numeric string or None for a
\* number, a colour that is no #RRGGBB) is replaced by the default and
\* never aborts the render.
C8_MalformedDegrades ==
  pc = "raised" => exc.by \notin OptionKeys

Ranges ==
  [poster_shift_y |-> <<-500, 500>>,
   matte_height_ratio |-> <<0, 500>>,
   fade_height_ratio |-> <<0, 500>>,
   vignette_strength |-> <<0, 1000>>,
   grain_amount |-> <<0, 600>>,
   logo_scale |-> <<100, 1000>>,
   logo_offset |-> <<0, 1000>>]

Defaults ==
  [poster_shift_y |-> 0, matte_height_ratio |-> 0, fade_height_ratio |-> 0,
   vignette_strength |-> 0, grain_amount |-> 0,
   logo_scale |-> 500, logo_offset |-> 750]

\* The value of key the render must use: the given number (the default
\* when the key is missing) moved into the documented range
Expected(key) ==
  LET given == IF options[key].t = "absent" THEN Defaults[key] ELSE options[key].n
  IN IF given < Ranges[key][1] THEN Ranges[key][1]
     ELSE IF given > Ranges[key][2] THEN Ranges[key][2]
     ELSE given

\* C9: every numeric input is clamped into its documented range and never
\* rejected: poster_shift_y, the matte and fade ratios, vignette_strength,
\* grain_amount, and logo_scale and logo_offset of render_universal.
C9_NumericClamped ==
  /\ pc \notin {"call", "raised"} =>
       \A key \in {"poster_shift_y", "matte_height_ratio", "fade_height_ratio",
                   "vignette_strength", "grain_amount"} :
         /\ loc[key] >= Ranges[key][1]
         /\ loc[key] <= Ranges[key][2]
         /\ options[key].t \in {"absent", "num"} => loc[key] = Expected(key)
  /\ (renderer = "universal" /\ pc \in {"text", "finish", "returned"}) =>
       \A key \in {"logo_scale", "logo_offset"} :
         /\ loc[key] >= Ranges[key][1]
         /\ loc[key] <= Ranges[key][2]
         /\ options[key].t \in {"absent", "num"} => loc[key] = Expected(key)
  /\ (pc = "raised" /\ exc.by \in DOMAIN Ranges) => options[exc.by].t # "num"

\* A shift of -0.7 and a matte of 0.7 were given; the render uses -0.5
\* and 0.5.
C9_Witness ==
  /\ pc = "returned"
  /\ options["poster_shift_y"] = Num(-700)
  /\ options["matte_height_ratio"] = Num(700)
  /\ loc.poster_shift_y = -500
  /\ loc.matte_height_ratio = 500
  /\ canvas.shift_px = -1500

\* C10: position_y is clamped to [0,1] before the text block is placed,
\* so the centre of the block never lies outside the canvas height.
C10_PositionClamped ==
  canvas.text.on =>
    /\ loc.position_y >= 0
    /\ loc.position_y <= 1000
    /\ 2 * canvas.text.y + canvas.text.h >= 0
    /\ 2 * canvas.text.y + canvas.text.h <= 2 * canvas.h

\* C11: for poster_zoom = z the background is scaled by
\* base_scale * max(z, 0.01): the resized poster has the size _resize_cover
\* computes for z itself, also for every z in [0.01, 0.1).
C11_ZoomHonoured ==
  (canvas.poster # NoImage /\ options["poster_zoom"].t \in {"absent", "num"}) =>
    LET z == IF options["poster_zoom"].t = "absent"
               THEN 1000 ELSE options["poster_zoom"].n
        asked == resize_cover(background, canvas_w, canvas_h, z)
    IN /\ canvas.poster.rw = asked.rw
       /\ canvas.poster.rh = asked.rh

\* ------------------------------------------------------------------
\* Claims about the logo placement (checked under Spec)
\* ------------------------------------------------------------------
OverrideOn == PyBool(Get(options, "uniform_logo_override_enabled", PyFalse))

\* The bounding box asked for, in thousandths of a pixel
BoxW ==
  IF options["uniform_logo_max_w"].t = "absent"
    THEN 600000 ELSE options["uniform_logo_max_w"].n

BoxH ==
  IF options["uniform_logo_max_h"].t = "absent"
    THEN 240000 ELSE options["uniform_logo_max_h"].n

\* C13: in the bounding-box fit without override the scale is at most 1.0:
\* a logo larger than the box in either dimension is composited at most
\* max_w wide and at most max_h high, and a logo that fits the box keeps
\* its native size.
C13_BoxFitNeverUpscales ==
  (renderer = "uniformlogo" /\ canvas.logo.on /\ ~OverrideOn) =>
    /\ canvas.logo.w <= logo.w
    /\ canvas.logo.h <= logo.h
    /\ (1000 * logo.w > BoxW \/ 1000 * logo.h > BoxH) =>
         /\ 1000 * canvas.logo.w <= BoxW
         /\ 1000 * canvas.logo.h <= BoxH
    /\ (1000 * logo.w <= BoxW /\ 1000 * logo.h <= BoxH) =>
         /\ canvas.logo.w = logo.w
         /\ canvas.logo.h = logo.h

\* The 800x400 logo went into the default 600x240 box as 480x240.
C13_Witness ==
  /\ renderer = "uniformlogo"
  /\ pc = "returned"
  /\ ~OverrideOn
  /\ logo.w = 800
  /\ BoxW = 600000 /\ BoxH = 240000
  /\ canvas.logo.on
  /\ canvas.logo.w = 480
  /\ canvas.logo.h = 240

\* C14: under both placement strategies the composited logo is never wider
\* or taller than the logo's native size unless
\* uniform_logo_override_enabled is set.
C14_NeverUpscaled ==
  (canvas.logo.on /\ ~OverrideOn) =>
    /\ canvas.logo.w <= logo.w
    /\ canvas.logo.h <= logo.h

\* C15: in proportional placement the composited logo is
\* logo_scale x canvas_width wide, horizontally centred, and its vertical
\* centre lies at logo_offset x canvas_height (to the pixel int() drops).
C15_ProportionalPlacement ==
  (renderer = "universal" /\ canvas.logo.on) =>
    /\ canvas.logo.w = IntTrunc(canvas_w * loc.logo_scale, 1000)
    /\ canvas.logo.x = FloorDiv(canvas_w - canvas.logo.w, 2)
    /\ 1000 * (2 * canvas.logo.y + canvas.logo.h) >= 2 * canvas_h * loc.logo_offset - 2000
    /\ 1000 * (2 * canvas.logo.y + canvas.logo.h) <= 2 * canvas_h * loc.logo_offset + 2000

\* C16: without a logo the logo placement stage (universal.py 552-579,
\* uniformlogo.py 15-20) leaves the canvas as it is and raises nothing, in
\* both renderers and whatever logo_mode and logo_hex hold.
C16_NoLogoNoOp ==
  [][(/\ pc = "logo"
      /\ logo = NoImage
      /\ options["logo_scale"].t \in {"absent", "num"}
      /\ options["logo_offset"].t \in {"absent", "num"})
       => (canvas' = canvas /\ pc' # "raised")]_vars

\* The hex recolouring was asked for with a colour that is no hex, no logo
\* was given, and the render went on with the base poster.
C16_Witness ==
  /\ logo = NoImage
  /\ pc \in {"text", "returned"}
  /\ options["logo_mode"] = Str(S_hex)
  /\ options["logo_hex"] = Str(S_nothex)
  /\ canvas.logo = NoLogo
  /\ canvas.poster # NoImage

\* ------------------------------------------------------------------
\* Specification of the logo recolouring, pixel by pixel
\* ------------------------------------------------------------------
MaxPixels == 2

\* logo.convert("RGBA") of one pixel: an RGB pixel becomes opaque
convert_rgba(px) == IF Len(px) = 3 THEN Append(px, 255) ELSE px

\* Image.split(): band k of an image held as the sequence of its pixels
split_band(img, k) == [i \in 1..Len(img) |-> img[i][k]]

\* Image.new("L", size, v)
new_band(size, v) == [i \in 1..size |-> v]

\* Image.merge("RGBA", (r, g, b, a))
merge_rgba(r, g, b, a) == [i \in 1..Len(a) |-> <<r[i], g[i], b[i], a[i]>>]

\* _solid_color_logo that builds a fresh opaque alpha band
solid_color_logo_opaque(img, color) ==
  LET rgba == [i \in 1..Len(img) |-> convert_rgba(img[i])]
  IN merge_rgba(new_band(Len(rgba), color[1]), new_band(Len(rgba), color[2]),
                new_band(Len(rgba), color[3]), new_band(Len(rgba), 255))

solid_color_logo(img, color) ==
  LET rgba == [i \in 1..Len(img) |-> convert_rgba(img[i])]
      a == split_band(rgba, 4)
  IN merge_rgba(new_band(Len(rgba), color[1]), new_band(Len(rgba), color[2]),
                new_band(Len(rgba), color[3]), a)

\* Lines 554-566 of render_universal (20-32 of render_uniform_logo): color
\* is the average of the poster in match mode, _hex_to_rgb(logo_hex) in
\* hex mode
recolor(img, logo_mode, color) ==
  LET rgba == [i \in 1..Len(img) |-> convert_rgba(img[i])]
  IN IF logo_mode \in {"match", "hex"}
       THEN solid_color_logo(rgba, color)
       ELSE rgba

LogoPixels ==
  {<<r, g, 128, a>> : r \in {0, 255}, g \in {0, 255}, a \in {0, 100, 255}}
  \cup {<<r, 7, 128>> : r \in {0, 255}}

LogoImages ==
  UNION {[1..n -> LogoPixels] : n \in 1..MaxPixels}

InitRecolor ==
  /\ rc_pc = "call"
  /\ rc_logo \in LogoImages
  /\ rc_mode \in {"stock", "match", "hex"}
  /\ rc_color \in {<<255, 0, 128>>, <<10, 20, 30>>}
  /\ rc_out = <<>>
  /\ CoverIdle
  /\ MatteIdle
  /\ RenderIdle
  /\ WrapIdle
  /\ TextIdle
  /\ ThreadsIdle
  /\ OwnIdle
  /\ LateIdle

RecolorCall ==
  /\ rc_pc = "call"
  /\ rc_out' = recolor(rc_logo, rc_mode, rc_color)
  /\ rc_pc' = "returned"
  /\ UNCHANGED <<rc_logo, rc_mode, rc_color>>
  /\ UNCHANGED <<coverVars, matteVars, renderVars>>
  /\ UNCHANGED <<wrapVars, textVars, threadVars, ownVars, lateVars>>

NextRecolor == RecolorCall

SpecRecolor == InitRecolor /\ [][NextRecolor]_vars

\* Alpha of a pixel of the logo as it was handed in
AlphaOf(px) == IF Len(px) = 3 THEN 255 ELSE px[4]

\* C12: recolouring in match or hex mode keeps the alpha of every pixel of
\* the logo and sets the colour channels of every pixel to the one target
\* colour; stock mode leaves every pixel as it was.
C12_RecolorKeepsAlpha ==
  rc_pc = "returned" =>
    /\ Len(rc_out) = Len(rc_logo)
    /\ \A i \in 1..Len(rc_logo) :
         /\ rc_out[i][4] = AlphaOf(rc_logo[i])
         /\ rc_mode \in {"match", "hex"} =>
              <<rc_out[i][1], rc_out[i][2], rc_out[i][3]>> = rc_color
         /\ rc_mode = "stock" =>
              <<rc_out[i][1], rc_out[i][2], rc_out[i][3]>> =
                <<rc_logo[i][1], rc_logo[i][2], rc_logo[i][3]>>

\* A transparent and a half-transparent pixel were recoloured.
C12_Witness ==
  /\ rc_pc = "returned"
  /\ rc_mode = "hex"
  /\ rc_logo = <<(<<255, 0, 128, 0>>), (<<0, 255, 128, 100>>)>>
  /\ rc_color = <<10, 20, 30>>
  /\ rc_out = <<(<<10, 20, 30, 0>>), (<<10, 20, 30, 100>>)>>

\* ------------------------------------------------------------------
\* Specification of wrap_line
\* ------------------------------------------------------------------
MaxLine == 4

MaxWidth == 4

\* Advance width the font gives a character: a wide one and narrow ones
advance(c) == IF c = "W" THEN 2 ELSE 1

RECURSIVE RStrip(_)
RStrip(t) ==
  IF Len(t) > 0 /\ t[Len(t)] = " " THEN RStrip(SubSeq(t, 1, Len(t) - 1)) ELSE t

RECURSIVE Spaced(_, _)
\* ''.join(c + ' ' * letter_spacing for c in text_line)
Spaced(t, letter_spacing) ==
  IF Len(t) = 0 THEN <<>>
  ELSE <<t[1]>> \o [i \in 1..letter_spacing |-> " "] \o Spaced(Tail(t), letter_spacing)

apply_letter_spacing(text_line, letter_spacing) ==
  IF letter_spacing > 0 THEN RStrip(Spaced(text_line, letter_spacing)) ELSE text_line

RECURSIVE SumAdvance(_)
SumAdvance(t) == IF Len(t) = 0 THEN 0 ELSE advance(t[1]) + SumAdvance(Tail(t))

\* bbox[2] - bbox[0] of the spaced line
measure_text_width(text_line, letter_spacing) ==
  SumAdvance(apply_letter_spacing(text_line, letter_spacing))

RECURSIVE Split(_)
\* line.split(' ')
Split(t) ==
  IF \E i \in 1..Len(t) : t[i] = " "
    THEN LET i == CHOOSE k \in 1..Len(t) : t[k] = " " /\ \A j \in 1..(k - 1) : t[j] # " "
         IN <<SubSeq(t, 1, i - 1)>> \o Split(SubSeq(t, i + 1, Len(t)))
    ELSE <<t>>

\* The body of `for char in word` that tests the line it has, not the
\* line with the character added
char_step_late(st, char, max_width, letter_spacing) ==
  IF measure_text_width(st.current_line, letter_spacing) <= max_width
    THEN [st EXCEPT !.current_line = st.current_line \o <<char>>]
    ELSE [current_line |-> <<char>>,
          wrapped_lines |-> IF st.current_line # <<>>
                              THEN Append(st.wrapped_lines, st.current_line)
                              ELSE st.wrapped_lines]

\* The body of `for char in word` (lines 287-293)
char_step(st, char, max_width, letter_spacing) ==
  LET test_line == st.current_line \o <<char>>
  IN IF measure_text_width(test_line, letter_spacing) <= max_width
       THEN [st EXCEPT !.current_line = test_line]
       ELSE [current_line |-> <<char>>,
             wrapped_lines |-> IF st.current_line # <<>>
                                 THEN Append(st.wrapped_lines, st.current_line)
                                 ELSE st.wrapped_lines]

RECURSIVE break_word(_, _, _, _)
break_word(st, word, max_width, letter_spacing) ==
  IF Len(word) = 0 THEN st
  ELSE break_word(char_step(st, word[1], max_width, letter_spacing),
                  Tail(word), max_width, letter_spacing)

\* The body of `for word in words` (lines 272-295)
word_step(st, word, max_width, letter_spacing) ==
  LET test_line == st.current_line
                     \o (IF st.current_line # <<>> THEN <<" ">> ELSE <<>>) \o word
  IN IF measure_text_width(test_line, letter_spacing) <= max_width
       THEN [st EXCEPT !.current_line = test_line]
       ELSE IF st.current_line # <<>>
              THEN [current_line |-> word,
                    wrapped_lines |-> Append(st.wrapped_lines, st.current_line)]
              ELSE IF measure_text_width(word, letter_spacing) > max_width
                     THEN break_word(st, word, max_width, letter_spacing)
                     ELSE [st EXCEPT !.current_line = word]

RECURSIVE wrap_words(_, _, _, _)
wrap_words(st, words, max_width, letter_spacing) ==
  IF Len(words) = 0 THEN st
  ELSE wrap_words(word_step(st, words[1], max_width, letter_spacing),
                  Tail(words), max_width, letter_spacing)

wrap_line(line, max_width, letter_spacing) ==
  IF line = <<>> THEN << <<>> >>
  ELSE IF measure_text_width(line, letter_spacing) <= max_width THEN <<line>>
  ELSE
    LET st == wrap_words([current_line |-> <<>>, wrapped_lines |-> <<>>],
                         Split(line), max_width, letter_spacing)
        wrapped_lines == IF st.current_line # <<>>
                           THEN Append(st.wrapped_lines, st.current_line)
                           ELSE st.wrapped_lines
    IN IF wrapped_lines # <<>> THEN wrapped_lines ELSE << <<>> >>

WrapLines == UNION {[1..n -> {"i", "W", " "}] : n \in 0..MaxLine}

InitWrap ==
  /\ wl_pc = "call"
  /\ wl_line \in WrapLines
  /\ wl_max \in 2..MaxWidth
  /\ wl_spacing \in {0, 1}
  /\ wl_out = <<>>
  /\ CoverIdle
  /\ MatteIdle
  /\ RenderIdle
  /\ RecolorIdle
  /\ TextIdle
  /\ ThreadsIdle
  /\ OwnIdle
  /\ LateIdle

WrapLineCall ==
  /\ wl_pc = "call"
  /\ wl_out' = wrap_line(wl_line, wl_max, wl_spacing)
  /\ wl_pc' = "returned"
  /\ UNCHANGED <<wl_line, wl_max, wl_spacing>>
  /\ UNCHANGED <<coverVars, matteVars, renderVars>>
  /\ UNCHANGED <<recolorVars, textVars, threadVars, ownVars, lateVars>>

NextWrap == WrapLineCall

SpecWrap == InitWrap /\ [][NextWrap]_vars

RECURSIVE Concat(_)
Concat(ls) == IF Len(ls) = 0 THEN <<>> ELSE ls[1] \o Concat(Tail(ls))

Spaceless(t) == \A i \in 1..Len(t) : t[i] # " "

\* C17: a string without spaces that is wider than max_width is split
\* character by character: no output line is wider than max_width (every
\* single character fits), no output line is empty, and the output lines
\* put together are the input; a string that is at most max_width wide
\* gives exactly one line, the input.
C17_WrapSpaceless ==
  wl_pc = "returned" =>
    /\ (Spaceless(wl_line) /\ measure_text_width(wl_line, wl_spacing) > wl_max) =>
         /\ \A i \in 1..Len(wl_out) :
              /\ measure_text_width(wl_out[i], wl_spacing) <= wl_max
              /\ wl_out[i] # <<>>
         /\ Len(wl_out) >= 2
         /\ Concat(wl_out) = wl_line
    /\ measure_text_width(wl_line, wl_spacing) <= wl_max => wl_out = <<wl_line>>

\* "WiWW" in a width of 3 came out as "Wi", "W", "W".
C17_Witness ==
  /\ wl_pc = "returned"
  /\ wl_line = <<"W", "i", "W", "W">>
  /\ wl_max = 3
  /\ wl_spacing = 0
  /\ wl_out = << <<"W", "i">>, <<"W">>, <<"W">> >>

\* ------------------------------------------------------------------
\* Specification of the text the overlay draws
\* ------------------------------------------------------------------
AsciiLower == <<"a", "b", "c", "d", "e", "f", "g", "h", "i", "j", "k", "l", "m", "n", "o", "p", "q", "r", "s", "t", "u", "v", "w", "x", "y", "z">>

AsciiUpper == <<"A", "B", "C", "D", "E", "F", "G", "H", "I", "J", "K", "L", "M", "N", "O", "P", "Q", "R", "S", "T", "U", "V", "W", "X", "Y", "Z">>

IsLetter(c) == IndexOf(c, AsciiLower) > 0 \/ IndexOf(c, AsciiUpper) > 0

upper_char(c) == IF IndexOf(c, AsciiLower) > 0 THEN AsciiUpper[IndexOf(c, AsciiLower)] ELSE c

lower_char(c) == IF IndexOf(c, AsciiUpper) > 0 THEN AsciiLower[IndexOf(c, AsciiUpper)] ELSE c

\* str.upper()
str_upper(t) == [i \in 1..Len(t) |-> upper_char(t[i])]

\* str.lower()
str_lower(t) == [i \in 1..Len(t) |-> lower_char(t[i])]

\* str.title(): a letter after a non-letter is upper-cased, the others
\* lower-cased
str_title(t) ==
  [i \in 1..Len(t) |->
     IF i = 1 \/ ~IsLetter(t[i - 1]) THEN upper_char(t[i]) ELSE lower_char(t[i])]

RECURSIVE str_replace(_, _, _)
\* str.replace(old, new) for a non-empty old: left to right, no overlap
str_replace(t, old, new) ==
  IF Len(t) < Len(old) THEN t
  ELSE IF SubSeq(t, 1, Len(old)) = old
         THEN new \o str_replace(SubSeq(t, Len(old) + 1, Len(t)), old, new)
         ELSE <<t[1]>> \o str_replace(Tail(t), old, new)

S_year == <<"{", "y", "e", "a", "r", "}">>

transform_text(t, text_transform) ==
  CASE text_transform = "uppercase" -> str_upper(t)
    [] text_transform = "lowercase" -> str_lower(t)
    [] text_transform = "capitalize" -> str_title(t)
    [] OTHER -> t

\* The text with the case transform applied before the substitution
overlay_text_transform_first(text, movie_title, movie_year, text_transform) ==
  str_replace(str_replace(transform_text(text, text_transform), S_title, movie_title),
              S_year, movie_year)

\* Lines 225-235 of _render_text_overlay: substitution, then transform
overlay_text(text, movie_title, movie_year, text_transform) ==
  transform_text(str_replace(str_replace(text, S_title, movie_title),
                             S_year, movie_year),
                 text_transform)

S_Dune == <<"D", "u", "n", "e">>

S_DUNE == <<"D", "U", "N", "E">>

CustomTexts ==
  {S_title, S_year, S_title \o <<" ">> \o S_year, <<"a", " ">> \o S_title}

MovieTitles == {S_Dune, <<"t", "h", "e", " ", "t", "h", "i", "n", "g">>, S_year}

MovieYears == {<<>>, <<"8", "4">>}

TextTransforms == {"uppercase", "lowercase", "capitalize", "none"}

InitText ==
  /\ tx_pc = "call"
  /\ tx_text \in CustomTexts
  /\ tx_title \in MovieTitles
  /\ tx_year \in MovieYears
  /\ tx_transform \in TextTransforms
  /\ tx_out = <<>>
  /\ CoverIdle
  /\ MatteIdle
  /\ RenderIdle
  /\ RecolorIdle
  /\ WrapIdle
  /\ ThreadsIdle
  /\ OwnIdle
  /\ LateIdle

OverlayTextCall ==
  /\ tx_pc = "call"
  /\ tx_out' = overlay_text(tx_text, tx_title, tx_year, tx_transform)
  /\ tx_pc' = "returned"
  /\ UNCHANGED <<tx_text, tx_title, tx_year, tx_transform>>
  /\ UNCHANGED <<coverVars, matteVars, renderVars>>
  /\ UNCHANGED <<recolorVars, wrapVars, threadVars, ownVars, lateVars>>

NextText == OverlayTextCall

SpecText == InitText /\ [][NextText]_vars

\* C18: {title} and {year} are substituted first and the case transform is
\* applied afterwards, so the substituted values are transformed too:
\* '{title}' with movie_title 'Dune' and 'uppercase' gives 'DUNE'.
C18_SubstituteThenTransform ==
  tx_pc = "returned" =>
    /\ (tx_text = S_title /\ tx_title = S_Dune /\ tx_transform = "uppercase")
         => tx_out = S_DUNE
    /\ (tx_text = S_title /\ tx_title = S_Dune /\ tx_transform = "none")
         => tx_out = S_Dune
    /\ tx_transform = "uppercase" =>
         \A i \in 1..Len(tx_out) : IndexOf(tx_out[i], AsciiLower) = 0
    /\ tx_transform = "lowercase" =>
         \A i \in 1..Len(tx_out) : IndexOf(tx_out[i], AsciiUpper) = 0
    /\ (tx_text = S_title /\ tx_title # S_year) =>
         tx_out = transform_text(tx_title, tx_transform)

\* '{title}' with 'Dune' in uppercase was turned into 'DUNE'.
C18_Witness ==
  /\ tx_pc = "returned"
  /\ tx_text = S_title
  /\ tx_title = S_Dune
  /\ tx_transform = "uppercase"
  /\ tx_out = S_DUNE

\* ------------------------------------------------------------------
\* Specification of renders that run on threads of one process
\* ------------------------------------------------------------------
MaxThreads == 2

Threads == 1..MaxThreads

\* grain_amount after the clamp of line 468
GrainAmounts == {0, 300, 600}

\* np.random.uniform draws from the generator of the numpy module: the
\* field it returns follows from the state of that generator, which the
\* draw advances.
np_random_uniform(state) == [field |-> state + 1, state |-> state + 1]

InitThreads ==
  /\ th_pc = [t \in Threads |-> "call"]
  /\ th_amount \in [Threads -> GrainAmounts]
  /\ th_noise = [t \in Threads |-> 0]
  /\ th_touched = [t \in Threads |-> {}]
  /\ np_random = 0
  /\ CoverIdle
  /\ MatteIdle
  /\ RenderIdle
  /\ RecolorIdle
  /\ WrapIdle
  /\ TextIdle
  /\ OwnIdle
  /\ LateIdle

\* Lines 437-503: options, canvas, poster, matte and vignette work on
\* objects the call created or was handed
ThBuildBase(t) ==
  /\ th_pc[t] = "call"
  /\ th_pc' = [th_pc EXCEPT ![t] = "grain"]
  /\ UNCHANGED <<th_amount, th_noise, th_touched, np_random>>
  /\ UNCHANGED <<coverVars, matteVars, renderVars>>
  /\ UNCHANGED <<recolorVars, wrapVars, textVars, ownVars, lateVars>>

\* _add_grain, lines 66-81
ThAddGrain(t) ==
  /\ th_pc[t] = "grain"
  /\ th_pc' = [th_pc EXCEPT ![t] = "wash"]
  /\ IF th_amount[t] <= 0
       THEN UNCHANGED <<th_noise, th_touched, np_random>>
       ELSE LET drawn == np_random_uniform(np_random)
            IN /\ th_noise' = [th_noise EXCEPT ![t] = drawn.field]
               /\ np_random' = drawn.state
               /\ th_touched' = [th_touched EXCEPT ![t] = @ \cup {"np.random"}]
  /\ UNCHANGED th_amount
  /\ UNCHANGED <<coverVars, matteVars, renderVars>>
  /\ UNCHANGED <<recolorVars, wrapVars, textVars, ownVars, lateVars>>

\* Lines 508-515 and the rest of the render
ThFinish(t) ==
  /\ th_pc[t] = "wash"
  /\ th_pc' = [th_pc EXCEPT ![t] = "returned"]
  /\ UNCHANGED <<th_amount, th_noise, th_touched, np_random>>
  /\ UNCHANGED <<coverVars, matteVars, renderVars>>
  /\ UNCHANGED <<recolorVars, wrapVars, textVars, ownVars, lateVars>>

NextThreads ==
  \E t \in Threads :
    \/ ThBuildBase(t)
    \/ ThAddGrain(t)
    \/ ThFinish(t)

SpecThreads == InitThreads /\ [][NextThreads]_vars

\* C19: a render touches no shared mutable state: two renders that run
\* concurrently, grain_amount > 0 included, never read or write a variable
\* the other one reads or writes.
C19_NoSharedState ==
  \A t, u \in Threads : t # u => th_touched[t] \cap th_touched[u] = {}

\* ------------------------------------------------------------------
\* Specification of the objects a render creates and writes in place
\* ------------------------------------------------------------------
\* ow_heap is the sequence of the objects that exist, an object being the
\* record of who owns it and of how often it was written in place; an
\* object is named by its index.  ow_refs binds the names of the render
\* (background, logo, options, canvas) to objects, 0 being None.
Obj(owner) == [owner |-> owner, writes |-> 0]

Alloc(h) == Append(h, Obj("render"))

\* An allocator that hands out the first object again
image_new_first(h) == 1

\* The object Image.new(...) returns: one that did not exist before
image_new(h) == Len(h) + 1

\* Image.new(...)
New(h) == [h |-> Alloc(h), id |-> image_new(h)]

\* convert, resize, crop, filter, merge, Image.composite, Image.blend,
\* Image.alpha_composite, ImageOps.expand: the result is a new image
Result(h) == [h |-> Alloc(h), id |-> Len(h) + 1]

RECURSIVE Results(_, _)
\* n such operations in a row, each on the result of the one before
Results(h, n) == IF n = 0 THEN [h |-> h, id |-> Len(h)] ELSE Results(Alloc(h), n - 1)

\* paste, alpha_composite (the method), putalpha, ImageDraw drawing and
\* pixel access write the object they are called on
in_place(h, id) == [h EXCEPT ![id].writes = @ + 1]

OwnInputs ==
  [renderer : Renderers, has_logo : BOOLEAN, matte : BOOLEAN,
   vignette : BOOLEAN, grain : BOOLEAN, logo_mode : {"stock", "match", "hex"},
   text : BOOLEAN, border : BOOLEAN]

InitOwn ==
  /\ ow_pc = "call"
  /\ ow_in \in OwnInputs
  /\ ow_heap = <<Obj("caller"), Obj("caller"), Obj("caller")>>
  /\ ow_refs = [background |-> 1, logo |-> IF ow_in.has_logo THEN 2 ELSE 0,
                options |-> 3, canvas |-> 0]
  /\ CoverIdle
  /\ MatteIdle
  /\ RenderIdle
  /\ RecolorIdle
  /\ WrapIdle
  /\ TextIdle
  /\ ThreadsIdle
  /\ LateIdle

\* build_base_poster, lines 471-515
OwBuildBase ==
  /\ ow_pc = "call"
  /\ LET base == New(ow_heap)                         \* 471
         poster == Results(base.h, 2)                 \* 473: resize, crop
         pasted == in_place(poster.h, base.id)        \* 475: base.paste
         mask == New(pasted)                          \* 482
         black == New(in_place(mask.h, mask.id))      \* 483-499
         matted == IF ow_in.matte
                     THEN Result(black.h)             \* 500
                     ELSE [h |-> pasted, id |-> base.id]
         rgb == Result(matted.h)                      \* 503
         vig == New(Result(rgb.h).h)                  \* 46-48
         vblack == New(Result(in_place(vig.h, vig.id)).h)   \* 58-61
         vignetted == IF ow_in.vignette
                        THEN Result(vblack.h)         \* 62
                        ELSE rgb
         grained == IF ow_in.grain
                      THEN Results(vignetted.h, 5)    \* 71-81
                      ELSE vignetted
         returned == Result(grained.h)                \* 515
     IN /\ ow_heap' = returned.h
        /\ ow_refs' = [ow_refs EXCEPT !.canvas = returned.id]
  /\ ow_pc' = "logo"
  /\ UNCHANGED ow_in
  /\ UNCHANGED <<coverVars, matteVars, renderVars>>
  /\ UNCHANGED <<recolorVars, wrapVars, textVars, threadVars, lateVars>>

\* The logo as it is composited: converted, recoloured and resized
\* (universal.py 554-573, uniformlogo.py 20-69)
PreparedLogo(h) ==
  LET converted == Result(h)
      recoloured == CASE ow_in.logo_mode = "match" -> Results(converted.h, 2)
                      [] ow_in.logo_mode = "hex" -> Result(converted.h)
                      [] OTHER -> converted
  IN Result(recoloured.h)

\* render_universal, lines 553-579
OwUniversalLogo ==
  /\ ow_pc = "logo"
  /\ ow_in.renderer = "universal"
  /\ IF ow_in.has_logo
       THEN LET lg == PreparedLogo(ow_heap)
            IN /\ ow_heap' = in_place(lg.h, ow_refs.canvas)      \* 579
               /\ ow_refs' = [ow_refs EXCEPT !.logo = lg.id]
       ELSE UNCHANGED <<ow_heap, ow_refs>>
  /\ ow_pc' = "text"
  /\ UNCHANGED ow_in
  /\ UNCHANGED <<coverVars, matteVars, renderVars>>
  /\ UNCHANGED <<recolorVars, wrapVars, textVars, threadVars, lateVars>>

\* render_uniform_logo, lines 18-75
OwUniformLogo ==
  /\ ow_pc = "logo"
  /\ ow_in.renderer = "uniformlogo"
  /\ IF ow_in.has_logo
       THEN LET lg == PreparedLogo(ow_heap)
            IN /\ ow_heap' = in_place(lg.h, ow_refs.canvas)      \* 75
               /\ ow_refs' = [ow_refs EXCEPT !.logo = lg.id]
               /\ ow_pc' = "text"
       ELSE /\ ow_pc' = "returned"                               \* 19
            /\ UNCHANGED <<ow_heap, ow_refs>>
  /\ UNCHANGED ow_in
  /\ UNCHANGED <<coverVars, matteVars, renderVars>>
  /\ UNCHANGED <<recolorVars, wrapVars, textVars, threadVars, lateVars>>

\* _render_text_overlay, lines 341-417
OwText ==
  /\ ow_pc = "text"
  /\ IF ow_in.text
       THEN LET text_layer == New(ow_heap)                       \* 341
                shadow == New(text_layer.h)                      \* 362
                blurred == Results(in_place(shadow.h, shadow.id), 2)   \* 370-388
                drawn == in_place(blurred.h, text_layer.id)      \* 392-407
                composited == Results(drawn, 3)                  \* 412-416
            IN /\ ow_heap' = composited.h
               /\ ow_refs' = [ow_refs EXCEPT !.canvas = composited.id]
       ELSE UNCHANGED <<ow_heap, ow_refs>>
  /\ ow_pc' = "finish"
  /\ UNCHANGED ow_in
  /\ UNCHANGED <<coverVars, matteVars, renderVars>>
  /\ UNCHANGED <<recolorVars, wrapVars, textVars, threadVars, lateVars>>

\* render_universal, lines 591-626
OwUniversalFinish ==
  /\ ow_pc = "finish"
  /\ ow_in.renderer = "universal"
  /\ LET converted == Result(ow_heap)                            \* 591
         round_mask == New(converted.h)                          \* 595
         rounded == in_place(in_place(round_mask.h, round_mask.id),
                             converted.id)                       \* 596-601
         filled_bg == New(rounded)                               \* 608
         inner == New(Result(filled_bg.h).h)                     \* 609-614
         border_layer == New(Result(in_place(inner.h, inner.id)).h)   \* 615-622
         bordered == Result(in_place(border_layer.h, border_layer.id))   \* 623-624
         returned == Result(IF ow_in.border THEN bordered.h ELSE rounded)   \* 626
     IN /\ ow_heap' = returned.h
        /\ ow_refs' = [ow_refs EXCEPT !.canvas = returned.id]
  /\ ow_pc' = "returned"
  /\ UNCHANGED ow_in
  /\ UNCHANGED <<coverVars, matteVars, renderVars>>
  /\ UNCHANGED <<recolorVars, wrapVars, textVars, threadVars, lateVars>>

\* render_uniform_logo, lines 86-94
OwUniformBorder ==
  /\ ow_pc = "finish"
  /\ ow_in.renderer = "uniformlogo"
  /\ IF ow_in.border
       THEN LET expanded == Result(ow_heap)                      \* 92
            IN /\ ow_heap' = expanded.h
               /\ ow_refs' = [ow_refs EXCEPT !.canvas = expanded.id]
       ELSE UNCHANGED <<ow_heap, ow_refs>>
  /\ ow_pc' = "returned"
  /\ UNCHANGED ow_in
  /\ UNCHANGED <<coverVars, matteVars, renderVars>>
  /\ UNCHANGED <<recolorVars, wrapVars, textVars, threadVars, lateVars>>

NextOwn ==
  \/ OwBuildBase
  \/ OwUniversalLogo
  \/ OwUniformLogo
  \/ OwText
  \/ OwUniversalFinish
  \/ OwUniformBorder

SpecOwn == InitOwn /\ [][NextOwn]_vars

\* C20: a render never mutates what the caller owns: the background, the
\* logo and the options mapping that were passed in are never written in
\* place, and the image returned is none of them.
C20_CallerOwnedUnchanged ==
  /\ \A i \in 1..Len(ow_heap) :
       ow_heap[i].owner = "caller" => ow_heap[i].writes = 0
  /\ ow_pc = "returned" => ow_heap[ow_refs.canvas].owner = "render"

\* A render with a logo has pasted the poster on its canvas, composited
\* the logo on the base poster and cut the corners of the result.
C20_Witness ==
  /\ ow_pc = "returned"
  /\ ow_in.renderer = "universal"
  /\ ow_in.has_logo
  /\ Cardinality({i \in 1..Len(ow_heap) :
                    ow_heap[i].owner = "render" /\ ow_heap[i].writes > 0}) >= 4
  /\ \A i \in 1..3 : ow_heap[i] = Obj("caller")

\* ------------------------------------------------------------------
\* Claims about the options of a render (checked under Spec)
\* ------------------------------------------------------------------
WashAsked ==
  options["wash_strength"].t = "num" /\ options["wash_strength"].n > 0

\* C21: the wash is controlled by the option wash_strength: with
\* wash_strength > 0 the gray is blended over the canvas, with
\* wash_strength 0 or absent the canvas is left as it was.
C21_WashStrengthControls ==
  BaseReturned =>
    /\ WashAsked => Applied(canvas, "wash")
    /\ ~WashAsked => ~Applied(canvas, "wash")

TextAsked ==
  /\ options["text_overlay_enabled"] = PyTrue
  /\ options["custom_text"] = Str(S_title)

BorderAsked ==
  /\ options["border_enabled"] = PyTrue
  /\ options["border_px"] = Num(20000)

\* C27: with text_overlay_enabled and a custom_text that is not blank the
\* text overlay is drawn, and the border finishing is applied, with or
\* without a logo, by render_universal and by render_uniform_logo.
C27_TextAndBorderWithoutLogo ==
  pc = "returned" =>
    /\ TextAsked => canvas.text.on
    /\ BorderAsked => canvas.border_px = 20

\* C28: with logo_mode 'none' no logo is composited on the canvas, also
\* when the caller passed a logo image to the renderer.
C28_LogoModeNone ==
  options["logo_mode"] = Str(S_none) => ~canvas.logo.on

\* C29: in proportional placement, for a logo of any aspect ratio, any
\* logo_scale in [0.1,1.0] and any logo_offset in [0,1], x_logo >= 0 and
\* y_logo >= 0, the resized logo lies within the canvas, and compositing
\* it does not fail.
C29_LogoInsideCanvas ==
  /\ (renderer = "universal" /\ canvas.logo.on) =>
       /\ canvas.logo.x >= 0
       /\ canvas.logo.y >= 0
       /\ canvas.logo.x + canvas.logo.w <= canvas_w
       /\ canvas.logo.y + canvas.logo.h <= canvas_h
  /\ pc = "raised" => exc.by # "alpha_composite"

\* C22: every line returned by wrap_line measures at most max_width (every
\* single character fits in max_width): a word wider than max_width is
\* broken character by character wherever it stands in the line.
C22_WrappedLinesFit ==
  wl_pc = "returned" =>
    \A i \in 1..Len(wl_out) :
      measure_text_width(wl_out[i], wl_spacing) <= wl_max

\* ------------------------------------------------------------------
\* _add_vignette: the mask its rings draw, followed at sample pixels
\* ------------------------------------------------------------------
steps == 60

max_r == Max(canvas_w, canvas_h)

Centre == <<1000, 1500>>

Corners == {<<0, 0>>, <<1999, 2999>>}

\* Pixels of the mask that are followed: the centre, two corners and
\* pixels in between, none of them on the outline of a ring
VignettePoints ==
  {Centre, <<1000, 1370>>, <<380, 1500>>, <<1000, 20>>} \cup Corners

VignetteStrengths == {0, 100, 500, 1000}

\* Squared distance of a pixel from (w / 2, h / 2)
Dist2(p) ==
  (p[1] - canvas_w \div 2) * (p[1] - canvas_w \div 2)
    + (p[2] - canvas_h \div 2) * (p[2] - canvas_h \div 2)

\* r = max_r * (i / steps)
ring_r(i) == (max_r * i) \div steps

\* a = int(255 * strength * (i / steps)), strength in thousandths
ring_a(strength, i) == IntTrunc(255 * strength * i, 1000 * steps)

\* draw.ellipse(bbox, fill=a) on an "L" image: every pixel of the disc
\* of radius r around the centre is set to a, the others are kept
draw_ellipse(mask, r, a) ==
  [p \in DOMAIN mask |-> IF Dist2(p) <= r * r THEN a ELSE mask[p]]

MaskMin(mask) == CHOOSE v \in {mask[p] : p \in DOMAIN mask} :
                   \A p \in DOMAIN mask : v <= mask[p]

MaskMax(mask) == CHOOSE v \in {mask[p] : p \in DOMAIN mask} :
                   \A p \in DOMAIN mask : v >= mask[p]

InitVignette ==
  /\ vg_pc = "call"
  /\ vg_strength \in VignetteStrengths
  /\ vg_i = 0
  /\ vg_mask = <<>>
  /\ CoverIdle
  /\ MatteIdle
  /\ RenderIdle
  /\ RecolorIdle
  /\ WrapIdle
  /\ TextIdle
  /\ ThreadsIdle
  /\ OwnIdle
  /\ LayerIdle
  /\ SettingsIdle
  /\ BatchIdle

\* Lines 43-49: the short circuit, or a mask of zeros
VignetteCall ==
  /\ vg_pc = "call"
  /\ IF vg_strength <= 0
       THEN /\ vg_pc' = "returned"
            /\ UNCHANGED vg_mask
       ELSE /\ vg_pc' = "rings"
            /\ vg_mask' = [p \in VignettePoints |-> 0]
  /\ UNCHANGED <<vg_strength, vg_i>>
  /\ UNCHANGED <<coverVars, matteVars, renderVars>>
  /\ UNCHANGED <<recolorVars, wrapVars, textVars, threadVars, ownVars>>
  /\ UNCHANGED <<layerVars, settingsVars, batchVars>>

\* Lines 54-58: one pass of the loop over range(steps)
VignetteRing ==
  /\ vg_pc = "rings"
  /\ vg_i < steps
  /\ vg_mask' = draw_ellipse(vg_mask, ring_r(vg_i), ring_a(vg_strength, vg_i))
  /\ vg_i' = vg_i + 1
  /\ vg_pc' = IF vg_i + 1 = steps THEN "blur" ELSE "rings"
  /\ UNCHANGED vg_strength
  /\ UNCHANGED <<coverVars, matteVars, renderVars>>
  /\ UNCHANGED <<recolorVars, wrapVars, textVars, threadVars, ownVars>>
  /\ UNCHANGED <<layerVars, settingsVars, batchVars>>

\* Lines 60-62: the Gaussian blur, whose every output value lies between
\* the least and the greatest value of the mask, and the composite
VignetteBlur ==
  /\ vg_pc = "blur"
  /\ vg_mask' \in [VignettePoints -> MaskMin(vg_mask)..MaskMax(vg_mask)]
  /\ vg_pc' = "returned"
  /\ UNCHANGED <<vg_strength, vg_i>>
  /\ UNCHANGED <<coverVars, matteVars, renderVars>>
  /\ UNCHANGED <<recolorVars, wrapVars, textVars, threadVars, ownVars>>
  /\ UNCHANGED <<layerVars, settingsVars, batchVars>>

NextVignette == VignetteCall \/ VignetteRing \/ VignetteBlur

SpecVignette == InitVignette /\ [][NextVignette]_vars

\* C23: for vignette_strength > 0 the mask the rings have drawn is radial
\* before it is blurred: its value does not decrease with the distance
\* from the canvas centre, and it is strictly lower at the centre than at
\* the canvas corners.
C23_MaskRadial ==
  vg_pc = "blur" =>
    /\ \A p, q \in VignettePoints :
         Dist2(p) <= Dist2(q) => vg_mask[p] <= vg_mask[q]
    /\ \A c \in Corners : vg_mask[Centre] < vg_mask[c]

\* ------------------------------------------------------------------
\* _render_text_overlay, lines 339-419: the text layer and what is drawn
\* on which image object
\* ------------------------------------------------------------------
MaxTextLines == 2

\* The option values after lines 208-218; lines is len(wrapped_lines)
TextLayerOptions ==
  [shadow_enabled : BOOLEAN, shadow_blur : {0, 10, 60},
   shadow_offset_x : {-30, 0}, shadow_offset_y : {4},
   stroke_enabled : BOOLEAN, stroke_width : {4, 60},
   lines : 1..MaxTextLines]

abs(n) == IF n < 0 THEN -n ELSE n

\* Line 340
padding(o) ==
  Max(o.shadow_blur + abs(o.shadow_offset_x) + abs(o.shadow_offset_y),
      o.stroke_width) + 50

\* What a draw.text call leaves on an image: the glyphs of a line or
\* their shadow, with the stroke outline when stroke_enabled
Mark(kind, line) == [kind |-> kind, line |-> line]

text_marks(kind, line, stroke_enabled) ==
  {Mark(kind, line)} \cup
    (IF stroke_enabled THEN {Mark(kind \o "_stroke", line)} ELSE {})

Shadowed(o) == o.shadow_enabled /\ o.shadow_blur > 0

InitLayer ==
  /\ tl_pc = "call"
  /\ tl_opts \in TextLayerOptions
  /\ tl_padding = 0
  /\ tl_i = 0
  /\ tl_heap = <<>>
  /\ tl_text_layer = 0
  /\ tl_draw = 0
  /\ tl_canvas = {}
  /\ CoverIdle
  /\ MatteIdle
  /\ RenderIdle
  /\ RecolorIdle
  /\ WrapIdle
  /\ TextIdle
  /\ ThreadsIdle
  /\ OwnIdle
  /\ VignetteIdle
  /\ SettingsIdle
  /\ BatchIdle

\* Lines 340-345: Image.new makes the text layer (object 1) and
\* ImageDraw.Draw binds draw to that object
NewTextLayer ==
  /\ tl_pc = "call"
  /\ tl_padding' = padding(tl_opts)
  /\ tl_heap' = <<{}>>
  /\ tl_text_layer' = 1
  /\ tl_draw' = 1
  /\ tl_i' = 1
  /\ tl_pc' = "lines"
  /\ UNCHANGED <<tl_opts, tl_canvas>>
  /\ UNCHANGED <<coverVars, matteVars, renderVars>>
  /\ UNCHANGED <<recolorVars, wrapVars, textVars, threadVars, ownVars>>
  /\ UNCHANGED <<vignetteVars, settingsVars, batchVars>>

\* Lines 346-409, one pass of the loop. With a shadow: Image.new makes the
\* shadow layer, filter returns the blurred one, Image.alpha_composite
\* returns a new image that the name text_layer is bound to. draw.text
\* then draws on the object draw was made for.
DrawLine ==
  /\ tl_pc = "lines"
  /\ LET o == tl_opts
         n == Len(tl_heap)
         shadow_marks == text_marks("shadow", tl_i, o.stroke_enabled)
         heap1 == IF Shadowed(o)
                    THEN tl_heap \o <<shadow_marks, shadow_marks,
                                      tl_heap[tl_text_layer] \cup shadow_marks>>
                    ELSE tl_heap
         glyphs == text_marks("glyph", tl_i, o.stroke_enabled)
     IN /\ tl_text_layer' = IF Shadowed(o) THEN n + 3 ELSE tl_text_layer
        /\ tl_heap' = [heap1 EXCEPT ![tl_draw] = @ \cup glyphs]
  /\ tl_i' = tl_i + 1
  /\ tl_pc' = IF tl_i = tl_opts.lines THEN "crop" ELSE "lines"
  /\ UNCHANGED <<tl_opts, tl_padding, tl_draw, tl_canvas>>
  /\ UNCHANGED <<coverVars, matteVars, renderVars>>
  /\ UNCHANGED <<recolorVars, wrapVars, textVars, threadVars, ownVars>>
  /\ UNCHANGED <<vignetteVars, settingsVars, batchVars>>

\* Lines 411-419: crop returns a new image with what text_layer holds,
\* and that image is composited onto the canvas
CompositeTextLayer ==
  /\ tl_pc = "crop"
  /\ tl_heap' = Append(tl_heap, tl_heap[tl_text_layer])
  /\ tl_text_layer' = Len(tl_heap) + 1
  /\ tl_canvas' = tl_heap[tl_text_layer]
  /\ tl_pc' = "returned"
  /\ UNCHANGED <<tl_opts, tl_padding, tl_i, tl_draw>>
  /\ UNCHANGED <<coverVars, matteVars, renderVars>>
  /\ UNCHANGED <<recolorVars, wrapVars, textVars, threadVars, ownVars>>
  /\ UNCHANGED <<vignetteVars, settingsVars, batchVars>>

NextLayer == NewTextLayer \/ DrawLine \/ CompositeTextLayer

SpecLayer == InitLayer /\ [][NextLayer]_vars

\* C24: with the shadow enabled (shadow_enabled and shadow_blur > 0) the
\* glyphs of every line are on the text layer that is composited onto the
\* canvas, together with the line's shadow.
C24_GlyphsOnCompositedLayer ==
  (tl_pc = "returned" /\ Shadowed(tl_opts)) =>
    \A i \in 1..tl_opts.lines :
      /\ Mark("glyph", i) \in tl_canvas
      /\ Mark("shadow", i) \in tl_canvas

\* C25: for non-negative shadow_blur, shadow offsets and stroke_width the
\* padding of the text layer is at least
\* shadow_blur + |shadow_offset_x| + |shadow_offset_y| + stroke_width.
C25_PaddingCoversEffects ==
  (tl_pc \in {"lines", "crop", "returned"}
     /\ tl_opts.shadow_blur >= 0 /\ tl_opts.stroke_width >= 0
     /\ tl_opts.shadow_offset_x >= 0 /\ tl_opts.shadow_offset_y >= 0) =>
    tl_padding >= tl_opts.shadow_blur + abs(tl_opts.shadow_offset_x)
                    + abs(tl_opts.shadow_offset_y) + tl_opts.stroke_width

\* ------------------------------------------------------------------
\* api/ui_settings.py: the stored UI settings and the two endpoints
\* ------------------------------------------------------------------
MaxCalls == 2

\* One top-level field of UISettings and the fields of its plex group;
\* a settings dict is a function from some of these keys to values
SettingsFields == {"theme", "plex.url", "plex.token"}

\* The defaults of the classes UISettings and PlexSettings
ModelDefault ==
  [f \in SettingsFields |-> IF f = "theme" THEN "neon" ELSE ""]

\* _default_ui_settings().model_dump(): plex seeded from the environment
default_ui_settings ==
  [f \in SettingsFields |->
     CASE f = "theme" -> "neon"
       [] f = "plex.url" -> "PLEX_URL"
       [] f = "plex.token" -> "PLEX_TOKEN"]

\* Values a user stores
UserValues ==
  [f \in SettingsFields |->
     CASE f = "theme" -> {"dark", "light"}
       [] f = "plex.url" -> {"http://a", "http://b"}
       [] f = "plex.token" -> {"tok1", "tok2"}]

SettingsDicts ==
  UNION {{d \in [D -> UNION {UserValues[f] : f \in D}] :
            \A f \in D : d[f] \in UserValues[f]} : D \in SUBSET SettingsFields}

\* {**a, **b}, applied to the top level and to each settings group
merge(a, b) ==
  [k \in DOMAIN a \cup DOMAIN b |-> IF k \in DOMAIN b THEN b[k] ELSE a[k]]

\* UISettings(**d).model_dump(exclude_none=False, exclude_defaults=False,
\* exclude_unset=False): every field, the unset ones at the class default
model_dump(d) == merge(ModelDefault, d)

NoFile == [exists |-> FALSE, data |-> <<>>]

File(d) == [exists |-> TRUE, data |-> d]

\* _read_settings: what it returns and what it leaves on disk
read_settings(file) ==
  IF ~file.exists
    THEN [file |-> File(default_ui_settings), settings |-> default_ui_settings]
    ELSE LET merged == merge(default_ui_settings, file.data)
         IN [file |-> IF merged # file.data THEN File(merged) ELSE file,
             settings |-> model_dump(merged)]

InitSettings ==
  /\ us_pc = "start"
  /\ us_file \in {NoFile} \cup
       {File([f \in D |-> CHOOSE v \in UserValues[f] : TRUE]) :
          D \in SUBSET SettingsFields}
  /\ us_before = NoFile
  /\ us_payload = <<>>
  /\ us_calls = 0
  /\ CoverIdle
  /\ MatteIdle
  /\ RenderIdle
  /\ RecolorIdle
  /\ WrapIdle
  /\ TextIdle
  /\ ThreadsIdle
  /\ OwnIdle
  /\ VignetteIdle
  /\ LayerIdle
  /\ BatchIdle

\* GET /ui-settings
get_ui_settings ==
  /\ us_calls < MaxCalls
  /\ us_file' = read_settings(us_file).file
  /\ us_before' = us_file
  /\ us_payload' = <<>>
  /\ us_pc' = "got"
  /\ us_calls' = us_calls + 1
  /\ UNCHANGED <<coverVars, matteVars, renderVars>>
  /\ UNCHANGED <<recolorVars, wrapVars, textVars, threadVars, ownVars>>
  /\ UNCHANGED <<vignetteVars, layerVars, batchVars>>

\* POST /ui-settings with a payload that sets the fields of its domain
save_ui_settings ==
  /\ us_calls < MaxCalls
  /\ \E payload \in SettingsDicts :
       LET defaults == default_ui_settings
           read == read_settings(us_file)
           current == model_dump(read.settings)
           incoming == model_dump(payload)
           merged == merge(merge(defaults, current), incoming)
       IN /\ us_file' = File(merged)
          /\ us_payload' = payload
  /\ us_before' = us_file
  /\ us_pc' = "saved"
  /\ us_calls' = us_calls + 1
  /\ UNCHANGED <<coverVars, matteVars, renderVars>>
  /\ UNCHANGED <<recolorVars, wrapVars, textVars, threadVars, ownVars>>
  /\ UNCHANGED <<vignetteVars, layerVars, batchVars>>

NextSettings == get_ui_settings \/ save_ui_settings

SpecSettings == InitSettings /\ [][NextSettings]_vars

\* C26: save_ui_settings loses no stored field: a field that was in the
\* settings file and that the payload did not set, at the top level or in
\* the plex group, has after the save the value it had in the file, and
\* this after any sequence of saves.
C26_SaveKeepsUnsetFields ==
  (us_pc = "saved" /\ us_before.exists) =>
    \A f \in DOMAIN us_before.data \ DOMAIN us_payload :
      /\ f \in DOMAIN us_file.data
      /\ us_file.data[f] = us_before.data[f]

\* ------------------------------------------------------------------
\* api/batch.py: api_batch, one rating key after the other
\* ------------------------------------------------------------------
MaxKeys == 2

\* The fields of the class BatchRequest
BatchRequestFields ==
  {"rating_keys", "template_id", "preset_id", "background_url", "logo_url",
   "options", "send_to_plex", "labels"}

\* req.<name> raises AttributeError for a name that is no field
attr_error(name) == name \notin BatchRequestFields

\* What the outside world does for a rating key: every step works, or the
\* first step that fails
KeyOutcomes == {"ok", "no_tmdb", "no_poster", "render_fails", "plex_fails"}

ok_result(k) == [rating_key |-> k, status |-> "ok", error |-> ""]

error_result(k, e) == [rating_key |-> k, status |-> "error", error |-> e]

\* Lines 91-226 for the key at position k: the results the pass appends
batch_key(k, outcome, send_to_plex) ==
  IF outcome = "no_tmdb" THEN <<error_result(k, "No TMDb ID found.")>>
  ELSE IF outcome = "no_poster" THEN <<error_result(k, "No valid poster found.")>>
  ELSE IF outcome = "render_fails" THEN <<error_result(k, "render")>>
  ELSE IF attr_error("save_locally") THEN <<error_result(k, "AttributeError")>>
  ELSE IF send_to_plex /\ outcome = "plex_fails" THEN <<error_result(k, "HTTPError")>>
  ELSE IF attr_error("generate_yaml")
         THEN <<ok_result(k), error_result(k, "AttributeError")>>
         ELSE <<ok_result(k)>>

InitBatch ==
  /\ bt_pc = "loop"
  /\ bt_keys \in UNION {[1..n -> KeyOutcomes] : n \in 0..MaxKeys}
  /\ bt_send \in BOOLEAN
  /\ bt_i = 1
  /\ bt_results = <<>>
  /\ bt_exc = "none"
  /\ CoverIdle
  /\ MatteIdle
  /\ RenderIdle
  /\ RecolorIdle
  /\ WrapIdle
  /\ TextIdle
  /\ ThreadsIdle
  /\ OwnIdle
  /\ VignetteIdle
  /\ LayerIdle
  /\ SettingsIdle

\* One pass of the loop at line 90, its try and its except
BatchKey ==
  /\ bt_pc = "loop"
  /\ bt_i <= Len(bt_keys)
  /\ bt_results' = bt_results \o batch_key(bt_i, bt_keys[bt_i], bt_send)
  /\ bt_i' = bt_i + 1
  /\ UNCHANGED <<bt_pc, bt_keys, bt_send, bt_exc>>
  /\ UNCHANGED <<coverVars, matteVars, renderVars>>
  /\ UNCHANGED <<recolorVars, wrapVars, textVars, threadVars, ownVars>>
  /\ UNCHANGED <<vignetteVars, layerVars, settingsVars>>

\* Lines 228-262, after the loop and outside every try
BatchRespond ==
  /\ bt_pc = "loop"
  /\ bt_i > Len(bt_keys)
  /\ IF attr_error("generate_yaml")
       THEN /\ bt_pc' = "raised"
            /\ bt_exc' = "AttributeError"
       ELSE /\ bt_pc' = "returned"
            /\ UNCHANGED bt_exc
  /\ UNCHANGED <<bt_keys, bt_send, bt_i, bt_results>>
  /\ UNCHANGED <<coverVars, matteVars, renderVars>>
  /\ UNCHANGED <<recolorVars, wrapVars, textVars, threadVars, ownVars>>
  /\ UNCHANGED <<vignetteVars, layerVars, settingsVars>>

NextBatch == BatchKey \/ BatchRespond

SpecBatch == InitBatch /\ [][NextBatch]_vars

Succeeds(outcome, send_to_plex) ==
  outcome = "ok" \/ (outcome = "plex_fails" /\ ~send_to_plex)

\* C30: api_batch returns a response with exactly one result per rating
\* key, in request order, with status 'ok' when every step for the key
\* succeeded and 'error' otherwise; a failure for one key stops neither
\* the later keys nor the response.
C30_OneResultPerKey ==
  bt_pc \in {"returned", "raised"} =>
    /\ bt_pc = "returned"
    /\ Len(bt_results) = Len(bt_keys)
    /\ \A k \in 1..Len(bt_keys) :
         /\ bt_results[k].rating_key = k
         /\ bt_results[k].status =
              IF Succeeds(bt_keys[k], bt_send) THEN "ok" ELSE "error"

====
